---- MODULE Spec2Model ----
(***************************************************************************)
(* Distributed Delivery Service for MLS (HiveNetCode/distributed-mls).     *)
(*                                                                         *)
(* The state of one group member (MLSClient + DistributedDeliveryService + *)
(* GossipBcast + CascadeConsensus with its two CACBroadcast instances,     *)
(* RestrainedConsensus and FullConsensus) is one record; every method of   *)
(* the source is an operator from member state to member state, so that a  *)
(* callback of the source is a call of the model.  A handler is written as *)
(* the sequence of its steps, each step an operator on the state the step  *)
(* before it left.  What a member writes to the network is collected in    *)
(* its field "out" and moved to the FIFO links by the action that ran the  *)
(* handler.                                                                *)
(***************************************************************************)
EXTENDS Integers, Sequences, FiniteSets, TLC

VARIABLES mem,      \* member id -> member state (one process each)
          net,      \* <<from, to>> -> FIFO of DDS messages in flight (one TCP stream)
          hist      \* what the environment has done so far (bounds the inputs)

vars == <<mem, net, hist>>

(***************************************************************************)
(* Bounds of the model                                                     *)
(***************************************************************************)
MaxEpoch == 2        \* the other members' messages are of epochs 1 .. MaxEpoch
MaxInputs == 4       \* messages the other members send in SpecEnv
MaxUpdates == 1      \* update commands a user types
MaxChoices == 3      \* candidate commits handed to chooseCommit in SpecChoice

(***************************************************************************)
(* Program constants                                                       *)
(***************************************************************************)
CAC_K == 1

WITNESS_CODE == 1
READY_CODE == 2

NoVal == [none |-> TRUE]                       \* an empty std::optional
EmptyMap == [x \in {} |-> 0]                   \* an empty std::map

Put(f, k, v) == [x \in (DOMAIN f) \cup {k} |-> IF x = k THEN v ELSE f[x]]
Get(f, k, d) == IF k \in DOMAIN f THEN f[k] ELSE d
Range(q) == {q[j] : j \in DOMAIN q}
Max(a, b) == IF a >= b THEN a ELSE b
Min(a, b) == IF a <= b THEN a ELSE b

(***************************************************************************)
(* MLS messages.  A commit names its epoch, its sender (leaf index) and    *)
(* the proposals it covers; a default-constructed MLSMessage (what         *)
(* std::map::operator[] inserts for a missing key) is EmptyMsg.            *)
(***************************************************************************)
Commit(id, e, p, props, added) ==
    [type |-> "commit", id |-> id, epoch |-> e, sender |-> p, props |-> props, added |-> added, removed |-> {}]
Welcome(e, members, added) == [type |-> "welcome", epoch |-> e, members |-> members, added |-> added]
Proposal(id, e, p, add) == [type |-> "proposal", id |-> id, epoch |-> e, sender |-> p, add |-> add]
AppMessage(id, e, p) == [type |-> "app", id |-> id, epoch |-> e, sender |-> p]
CAC2Content(refs, sigs) == [type |-> "content", conflictingMessages |-> refs, signatures |-> sigs]
EmptyMsg == [type |-> "empty"]
EmptyContent == CAC2Content(<<>>, {})            \* a default-constructed CAC2Content
\* MessageT{} of CACBroadcast<MessageT>: instance 1 carries MLSMessage, instance 2 CAC2Content
DefaultMessage(i) == IF i = 1 THEN EmptyMsg ELSE EmptyContent

\* cipher_suite().ref(x): a collision-free hash under a per-type label.
Ref(m) ==
    IF m.type = "content" THEN [c |-> m.conflictingMessages, sg |-> m.signatures]
    ELSE IF m.type = "empty" THEN [m |-> 0]
    ELSE [m |-> m.id]

\* The byte order of two references is the order of their hashes: fixed, and
\* unrelated to the content.  Commit references are ordered by id; references
\* of CAC2 contents by size and then by one fixed choice.
RefRank(r) == IF "m" \in DOMAIN r THEN r.m ELSE Len(r.c) + Cardinality(r.sg)
FirstRef(S) == CHOOSE x \in S : \A y \in S : RefRank(x) <= RefRank(y)

RECURSIVE RefSeq(_)
RefSeq(S) == IF S = {} THEN <<>> ELSE LET x == FirstRef(S) IN <<x>> \o RefSeq(S \ {x})

RECURSIVE SetSeq(_)
SetSeq(S) == IF S = {} THEN <<>> ELSE LET x == CHOOSE y \in S : TRUE IN <<x>> \o SetSeq(S \ {x})

(***************************************************************************)
(* ExtendedMLSState: the MLS black box as the engine sees it               *)
(***************************************************************************)
isValidProposal(s, m) == m.type = "proposal" /\ m.epoch = s.epoch /\ m.sender \in s.members
isValidCommit(s, m) == m.type = "commit" /\ m.epoch = s.epoch /\ m.sender \in s.members
isValidApplicationMessage(s, m) == m.type \in {"app", "cc"} /\ m.epoch = s.epoch /\ m.sender \in s.members

\* state.sign(bytes): an AuthenticatedContent of the signer in its epoch.
Sign(s, body) == [sender |-> s.id, epoch |-> s.epoch, body |-> body]
\* state.verify(ac): the signature is a member's, under this epoch's context.
Verify(s, ac) == ac.epoch = s.epoch /\ ac.sender \in s.members

(***************************************************************************)
(* CACSignature                                                            *)
(***************************************************************************)
CACSignature_sign(s, seq, kind, ref) == Sign(s, [sequence |-> seq, witnessOrReady |-> kind, ref |-> ref])

verifyAndConvert(s, ac) ==
    /\ Verify(s, ac)
    /\ DOMAIN ac.body = {"sequence", "witnessOrReady", "ref"}
    /\ ac.body.witnessOrReady \in {WITNESS_CODE, READY_CODE}

(***************************************************************************)
(* Network: what a handler writes is appended to the member's outbox       *)
(***************************************************************************)
NetWrite(s, to, msg) == IF to = {} \/ s.crashed THEN s ELSE [s EXCEPT !.out = Append(@, [to |-> to, msg |-> msg])]
Network_broadcast(s, msg) == NetWrite(s, s.conn, msg)
\* A broadcastSample that writes to every outbound client.
Network_broadcastSample_all(s, sample, msg) == NetWrite(s, s.conn, msg)
Network_broadcastSample(s, sample, msg) == NetWrite(s, sample \cap s.conn, msg)
Network_send(s, id, msg) == NetWrite([s EXCEPT !.conn = @ \cup {id}], {id}, msg)

\* state->protect(...): the MLS envelope of a CascadeConsensusMessage.
Protect(s, cc) == [type |-> "cc", epoch |-> s.epoch, sender |-> s.id, body |-> cc]

(***************************************************************************)
(* Calls between the components (the callbacks bound with std::bind, and   *)
(* the methods one component calls on another) go through Call, defined    *)
(* once every handler is.                                                  *)
(***************************************************************************)
RECURSIVE Call(_, _, _)

(***************************************************************************)
(* chooseCommit and handleCAC2Choice: the ChoiceCallback of each instance  *)
(***************************************************************************)
\* getCommitContent / getCommitSender are defined on the commits of the
\* current epoch only; on anything else they dereference an empty optional.
IsCommitOf(s, m) == m.type = "commit" /\ m.epoch = s.epoch /\ m.sender \in s.members

\* chooseCommit: most proposals, ties broken on the smallest sender; the first
\* of the list when nothing beats it.
RECURSIVE BestCommit_unbroken(_, _, _)
RECURSIVE BestCommit(_, _, _)
\* A choice that does not break ties: the last of the commits with most proposals.
BestCommit_unbroken(best, commits, j) ==
    IF j > Len(commits) THEN best
    ELSE IF Cardinality(commits[j].props) >= Cardinality(best.props)
         THEN BestCommit_unbroken(commits[j], commits, j + 1)
         ELSE BestCommit_unbroken(best, commits, j + 1)

BestCommit(best, commits, j) ==
    IF j > Len(commits) THEN best
    ELSE IF \/ Cardinality(commits[j].props) > Cardinality(best.props)
            \/ (Cardinality(commits[j].props) = Cardinality(best.props) /\ best.sender > commits[j].sender)
         THEN BestCommit(commits[j], commits, j + 1)
         ELSE BestCommit(best, commits, j + 1)

ChoiceDefined(s, commits) == commits # <<>> /\ \A j \in DOMAIN commits : IsCommitOf(s, commits[j])

chooseCommit(s, commits) == IF ChoiceDefined(s, commits) THEN BestCommit(commits[1], commits, 1) ELSE EmptyMsg

handleCAC2Choice(choices) == choices[1]

choiceCallback(s, i, choices) == IF i = 1 THEN chooseCommit(s, choices) ELSE handleCAC2Choice(choices)

(***************************************************************************)
(* CACBroadcast<MessageT>: instance 1 carries commits, instance 2 carries  *)
(* CAC2Content.  s.cac[i] is the instance; s.emitted is the history of the *)
(* signatures the member emitted (instance, epoch, sequence).              *)
(***************************************************************************)
NoSigs == [signedWitness |-> {}, signedReady |-> {}]      \* a default MessageSigs
witnessCount(c, ref) == Cardinality(Get(c.signaturesCount, ref, NoSigs).signedWitness)
readyCount(c, ref) == Cardinality(Get(c.signaturesCount, ref, NoSigs).signedReady)

CACMessage(kind, sigs, opt) == [witnessOrReady |-> kind, sigs |-> sigs, optBroadcastMessage |-> opt]

CACInit == [n |-> 0, t |-> 0, qw |-> 0, qr |-> 0, sigCount |-> 0, hasSentReady |-> FALSE,
            messageQueueLock |-> FALSE, messageQueue |-> <<>>,
            messages |-> EmptyMap, validSignatures |-> {}, validMessages |-> {}, seenMessages |-> {},
            waitingMessages |-> {}, deliveredMessages |-> {}, sequences |-> EmptyMap,
            signaturesCount |-> EmptyMap]

\* m_signaturesCount[ref].signedX.insert(sender), operator[] creating the entry.
AddSigner(sigs, sig) ==
    IF sig.body.witnessOrReady = WITNESS_CODE
    THEN [sigs EXCEPT !.signedWitness = @ \cup {sig.sender}]
    ELSE [sigs EXCEPT !.signedReady = @ \cup {sig.sender}]

CountSig(c, sig) ==
    [c EXCEPT !.signaturesCount = Put(@, sig.body.ref, AddSigner(Get(@, sig.body.ref, NoSigs), sig))]

\* m_signaturesCount[ref] read through operator[]: the entry exists afterwards.
TouchCount(c, ref) == [c EXCEPT !.signaturesCount = Put(@, ref, Get(@, ref, NoSigs))]
\* m_messages[ref] read through operator[]: a missing payload becomes an empty one.
TouchMessage(c, i, ref) == [c EXCEPT !.messages = Put(@, ref, Get(@, ref, DefaultMessage(i)))]

Thresholds(c, n) ==
    [c EXCEPT !.n = n, !.t = (n - CAC_K) \div 5, !.qw = 4 * ((n - CAC_K) \div 5) + CAC_K,
              !.qr = n - (n - CAC_K) \div 5]

\* (s.cacEra[i] counts the calls of newEpoch of instance i)
CAC_newEpoch(s, i) ==
    [s EXCEPT !.cacEra[i] = @ + 1,
              !.cac[i] = [Thresholds(@, Cardinality(s.members)) EXCEPT
                              !.sigCount = 0, !.hasSentReady = FALSE,
                              !.messages = EmptyMap, !.validSignatures = {},
                              !.validMessages = {}, !.seenMessages = {},
                              !.waitingMessages = {}, !.deliveredMessages = {},
                              !.sequences = EmptyMap, !.signaturesCount = EmptyMap]]

hasStarted(s, i) == s.cac[i].sigCount > 0

\* A counter that is not advanced by emitSignature.
NextSequence_stuck(c) == c.sigCount

\* m_sigCount++
NextSequence(c) == c.sigCount + 1

NewSignature(s, i, kind, ref) == CACSignature_sign(s, s.cac[i].sigCount, kind, ref)

emitSignature(s, i, kind, ref) ==
    [s EXCEPT !.cac[i] = CountSig([@ EXCEPT !.sigCount = NextSequence(s.cac[i]),
                                            !.validSignatures = @ \cup {NewSignature(s, i, kind, ref)}],
                                  NewSignature(s, i, kind, ref)),
              !.emitted = Append(@, [inst |-> i, epoch |-> s.epoch, sequence |-> s.cac[i].sigCount])]

\* A processNewSig that keeps the count of the referenced message only.
processNewSig_forgetful(c, sig) ==
    CountSig([c EXCEPT !.sequences = Put(@, sig.sender, Get(@, sig.sender, 0) + 1),
                       !.validSignatures = @ \cup {sig},
                       !.signaturesCount = [ref \in DOMAIN @ \cap {sig.body.ref} |-> @[ref]]], sig)

processNewSig(c, sig) ==
    CountSig([c EXCEPT !.sequences = Put(@, sig.sender, Get(@, sig.sender, 0) + 1),
                       !.validSignatures = @ \cup {sig}], sig)

\* The test of _receiveMessage that lets a signature through to processNewSig.
InOrder(c, sig) == ~(sig.body.sequence > Get(c.sequences, sig.sender, 0) + 1)

LowestSig(sigs) == CHOOSE x \in sigs : \A y \in sigs : x.body.sequence <= y.body.sequence

\* The loop of _receiveMessage over outOfOrderSigs: a signature is processed
\* as soon as the test lets it through, until none is.
RECURSIVE processSigs(_, _)
processSigs(c, pending) ==
    IF \A sig \in pending : ~InOrder(c, sig) THEN c
    ELSE processSigs(processNewSig(c, LowestSig({sig \in pending : InOrder(c, sig)})),
                     pending \ {LowestSig({sig \in pending : InOrder(c, sig)})})

SetReadySent(s, i, kind) == IF kind = READY_CODE THEN [s EXCEPT !.cac[i].hasSentReady = TRUE] ELSE s

\* (the signatures go out in the order of their references in m_validSignatures)
broadcastMessage(s, i, kind, opt) ==
    Call(SetReadySent(s, i, kind), "cacBroadcastCallback", <<i, CACMessage(kind, SetSeq(s.cac[i].validSignatures), opt)>>)

\* emitSignature(kind, ref); broadcastMessage(kind, opt);
SignAndBroadcast(s, i, kind, ref, opt) == broadcastMessage(emitSignature(s, i, kind, ref), i, kind, opt)

\* choices of validateMessage / receivedWitness: m_messages[validRef] for every
\* valid reference in map order, then m_choice; the reads create the entries.
RECURSIVE TouchAll(_, _, _)
TouchAll(c, i, refs) ==
    IF refs = {} THEN c ELSE TouchAll(TouchMessage(c, i, FirstRef(refs)), i, refs \ {FirstRef(refs)})

Choices(c, i) ==
    [j \in 1..Cardinality(c.validMessages) |-> Get(c.messages, RefSeq(c.validMessages)[j], DefaultMessage(i))]
Chosen(s, i) == choiceCallback(s, i, Choices(s.cac[i], i))

CAC_broadcast(s, i, message) ==
    IF s.cac[i].sigCount > 0 THEN s
    ELSE SignAndBroadcast([s EXCEPT !.cac[i] = [@ EXCEPT !.messages = IF Ref(message) \in DOMAIN @ THEN @
                                                                      ELSE Put(@, Ref(message), message),
                                                         !.seenMessages = @ \cup {Ref(message)},
                                                         !.validMessages = @ \cup {Ref(message)}]],
                          i, WITNESS_CODE, Ref(message), message)

\* validateMessage, "has not signed any statement yet": witness the chosen message
validateMessage_choose(s, i) ==
    IF s.cac[i].sigCount = 0
    THEN SignAndBroadcast([s EXCEPT !.cac[i] = [TouchAll(@, i, @.validMessages) EXCEPT
                                                    !.waitingMessages = @ \ {Ref(Chosen(s, i))}]],
                          i, WITNESS_CODE, Ref(Chosen(s, i)), Chosen(s, i))
    ELSE s

\* validateMessage, the message was waiting for its validation to be witnessed
validateMessage_waiting(s, i, ref) ==
    IF ref \in s.cac[i].waitingMessages
    THEN SignAndBroadcast([s EXCEPT !.cac[i].waitingMessages = @ \ {ref}], i, WITNESS_CODE, ref, NoVal)
    ELSE s

validateMessage(s, i, message) ==
    validateMessage_waiting(validateMessage_choose([s EXCEPT !.cac[i].validMessages = @ \cup {Ref(message)}], i),
                            i, Ref(message))

messagesWithEnoughWitness(c) == RefSeq({ref \in DOMAIN c.signaturesCount : witnessCount(c, ref) >= c.qw})

\* for(ref : toBeTransmitted) m_transmit(m_messages[ref]);
RECURSIVE TransmitAll(_, _, _)
TransmitAll(s, i, refs) ==
    IF refs = <<>> THEN s
    ELSE TransmitAll(Call([s EXCEPT !.cac[i] = TouchMessage(@, i, Head(refs))], "transmitCallback",
                          <<i, Get(s.cac[i].messages, Head(refs), DefaultMessage(i))>>),
                     i, Tail(refs))

ToBeTransmitted(c) == {ref \in DOMAIN c.signaturesCount : ref \notin c.seenMessages /\ ref \in DOMAIN c.messages}

receivedWitness_transmit(s, i) ==
    TransmitAll([s EXCEPT !.cac[i].seenMessages = @ \cup ToBeTransmitted(s.cac[i])], i,
                RefSeq(ToBeTransmitted(s.cac[i])))

receivedWitness_choose(s, i) ==
    IF s.cac[i].sigCount = 0 /\ s.cac[i].validMessages # {}
    THEN SignAndBroadcast([s EXCEPT !.cac[i] = TouchAll(@, i, @.validMessages)],
                          i, WITNESS_CODE, Ref(Chosen(s, i)), Chosen(s, i))
    ELSE s

\* The refs of which some signature is recorded
Signed(c) == {ref \in DOMAIN c.signaturesCount : c.signaturesCount[ref].signedWitness \cup c.signaturesCount[ref].signedReady # {}}

\* (s.cacCalls is the history of the calls of m_deliver: the instance, its run,
\* the ref, and what the instance had counted when it made the call)
Delivering(s, i, ref) ==
    [s EXCEPT !.cacCalls = Append(@, [inst |-> i, era |-> s.cacEra[i], ref |-> ref, n |-> s.cac[i].n, t |-> s.cac[i].t,
                                      readies |-> readyCount(s.cac[i], ref),
                                      witnesses |-> witnessCount(s.cac[i], ref),
                                      signed |-> Signed(s.cac[i]),
                                      sigs |-> Cardinality(s.cac[i].validSignatures)])]

\* The witness threshold one message must reach before READY signatures are emitted.
ReadyThreshold(c) == (c.n + c.t) \div 2 + 1

SendReady(s, i, ref) ==
    IF s.id \notin Get(s.cac[i].signaturesCount, ref, NoSigs).signedReady
    THEN SignAndBroadcast([s EXCEPT !.cac[i] = TouchCount(@, ref)], i, READY_CODE, ref, NoVal)
    ELSE [s EXCEPT !.cac[i] = TouchCount(@, ref)]

CanFastDeliver(c, message) ==
    /\ c.n > 5 * c.t
    /\ witnessCount(c, message) >= c.n - c.t
    /\ Cardinality(DOMAIN c.signaturesCount) = 1
    /\ message \notin c.deliveredMessages

FastDeliver(s, i, message) ==
    IF CanFastDeliver(s.cac[i], message)
    THEN Call(Delivering([s EXCEPT !.cac[i] = TouchMessage(@, i, message)], i, message), "cacDeliverCallback",
              <<i, Get(s.cac[i].messages, message, DefaultMessage(i)), <<message>>, s.cac[i].validSignatures>>)
    ELSE s

\* Body of the loop of receivedWitness over messagesWithEnoughWitness().
RECURSIVE ReadyAndFastPath(_, _, _)
ReadyAndFastPath(s, i, refs) ==
    IF refs = <<>> THEN s
    ELSE ReadyAndFastPath(FastDeliver(SendReady(s, i, Head(refs)), i, Head(refs)), i, Tail(refs))

receivedWitness_ready(s, i) ==
    IF \E ref \in DOMAIN s.cac[i].signaturesCount : witnessCount(s.cac[i], ref) >= ReadyThreshold(s.cac[i])
    THEN ReadyAndFastPath(s, i, messagesWithEnoughWitness(s.cac[i]))
    ELSE s

\* One message of the last loop of receivedWitness, over the copy witnessedMessages.
BackWitness(s, i, ref, snapshot, minWitnesses) ==
    IF Cardinality(snapshot[ref].signedWitness) >= minWitnesses /\ ref \notin s.cac[i].waitingMessages
    THEN IF s.id \notin Get(s.cac[i].signaturesCount, ref, NoSigs).signedWitness
         THEN IF ref \in s.cac[i].validMessages
              THEN SignAndBroadcast([s EXCEPT !.cac[i] = TouchCount(@, ref)], i, WITNESS_CODE, ref, NoVal)
              ELSE [s EXCEPT !.cac[i] = [TouchCount(@, ref) EXCEPT !.waitingMessages = @ \cup {ref}]]
         ELSE [s EXCEPT !.cac[i] = TouchCount(@, ref)]
    ELSE s

RECURSIVE WitnessBacking(_, _, _, _, _)
WitnessBacking(s, i, refs, snapshot, minWitnesses) ==
    IF refs = <<>> THEN s
    ELSE WitnessBacking(BackWitness(s, i, Head(refs), snapshot, minWitnesses), i, Tail(refs), snapshot, minWitnesses)

seenProcesses(c) == Cardinality(DOMAIN c.sequences) + 1
EnoughWitness(c) == {ref \in DOMAIN c.signaturesCount : witnessCount(c, ref) >= seenProcesses(c) - 2 * c.t}
Witnessed(c) == {ref \in DOMAIN c.signaturesCount : witnessCount(c, ref) > 0}
minWitnesses(c) == Max(1, c.n - c.t * (Cardinality(Witnessed(c)) + 1))

receivedWitness_backing(s, i) ==
    IF seenProcesses(s.cac[i]) >= s.cac[i].n - s.cac[i].t /\ ~s.cac[i].hasSentReady
    THEN IF /\ s.cac[i].n > 5 * s.cac[i].t
            /\ EnoughWitness(s.cac[i]) # {}
            /\ s.id \notin s.cac[i].signaturesCount[FirstRef(EnoughWitness(s.cac[i]))].signedWitness
            /\ FirstRef(EnoughWitness(s.cac[i])) \in s.cac[i].validMessages
         THEN SignAndBroadcast(s, i, WITNESS_CODE, FirstRef(EnoughWitness(s.cac[i])), NoVal)
         ELSE WitnessBacking(s, i, RefSeq(Witnessed(s.cac[i])), s.cac[i].signaturesCount, minWitnesses(s.cac[i]))
    ELSE s

receivedWitness(s, i) ==
    receivedWitness_backing(receivedWitness_ready(receivedWitness_choose(receivedWitness_transmit(s, i), i), i), i)

\* for(readyMsg : readyMessages) of receivedReady.
RECURSIVE ReadyAll(_, _, _)
ReadyAll(s, i, refs) ==
    IF refs = <<>> THEN s ELSE ReadyAll(SendReady(s, i, Head(refs)), i, Tail(refs))

\* A receivedReady that delivers what reached the witness threshold qw
DeliverOne_early(s, i, ref, conflictSet) ==
    IF witnessCount(s.cac[i], ref) >= s.cac[i].qw /\ ref \notin s.cac[i].deliveredMessages
    THEN Call(Delivering([s EXCEPT !.cac[i] = TouchMessage([TouchCount(@, ref) EXCEPT !.deliveredMessages = @ \cup {ref}],
                                                         i, ref)], i, ref),
              "cacDeliverCallback",
              <<i, Get(s.cac[i].messages, ref, DefaultMessage(i)), conflictSet, s.cac[i].validSignatures>>)
    ELSE [s EXCEPT !.cac[i] = TouchCount(@, ref)]

\* A receivedReady that does not look into m_deliveredMessages
DeliverOne_again(s, i, ref, conflictSet) ==
    IF readyCount(s.cac[i], ref) >= s.cac[i].qr
    THEN Call(Delivering([s EXCEPT !.cac[i] = TouchMessage([TouchCount(@, ref) EXCEPT !.deliveredMessages = @ \cup {ref}],
                                                         i, ref)], i, ref),
              "cacDeliverCallback",
              <<i, Get(s.cac[i].messages, ref, DefaultMessage(i)), conflictSet, s.cac[i].validSignatures>>)
    ELSE [s EXCEPT !.cac[i] = TouchCount(@, ref)]

DeliverOne(s, i, ref, conflictSet) ==
    IF readyCount(s.cac[i], ref) >= s.cac[i].qr /\ ref \notin s.cac[i].deliveredMessages
    THEN Call(Delivering([s EXCEPT !.cac[i] = TouchMessage([TouchCount(@, ref) EXCEPT !.deliveredMessages = @ \cup {ref}],
                                                         i, ref)], i, ref),
              "cacDeliverCallback",
              <<i, Get(s.cac[i].messages, ref, DefaultMessage(i)), conflictSet, s.cac[i].validSignatures>>)
    ELSE [s EXCEPT !.cac[i] = TouchCount(@, ref)]

\* for(ref : conflictSet) of receivedReady: deliver what reached the READY quorum.
RECURSIVE DeliverAll(_, _, _, _)
DeliverAll(s, i, refs, conflictSet) ==
    IF refs = <<>> THEN s
    ELSE DeliverAll(DeliverOne(s, i, Head(refs), conflictSet), i, Tail(refs), conflictSet)

ConflictSet(c) == RefSeq({ref \in DOMAIN c.signaturesCount : witnessCount(c, ref) >= CAC_K})

receivedReady_deliver(s, i) == DeliverAll(s, i, ConflictSet(s.cac[i]), ConflictSet(s.cac[i]))

receivedReady(s, i) ==
    IF messagesWithEnoughWitness(s.cac[i]) = <<>> THEN s
    ELSE receivedReady_deliver(ReadyAll(s, i, messagesWithEnoughWitness(s.cac[i])), i)

\* _receiveMessage, first part: store the piggybacked message
StoreMessage(c, opt) ==
    IF opt # NoVal /\ Ref(opt) \notin DOMAIN c.messages THEN [c EXCEPT !.messages = Put(@, Ref(opt), opt)] ELSE c

\* _receiveMessage, second part: the loop over message.sigs from position j.
\* r.c is the instance, r.out the set outOfOrderSigs.  A signature already in
\* m_validSignatures or that does not verify is skipped; m_sequences[sender]
\* is read for the others, which creates the key.
TouchSequence(c, q) == [c EXCEPT !.sequences = Put(@, q, Get(@, q, 0))]

RECURSIVE ProcessVerified(_, _, _, _)
ProcessVerified(s, r, sigs, j) ==
    IF j > Len(sigs) THEN r
    ELSE IF sigs[j] \in r.c.validSignatures \/ ~verifyAndConvert(s, sigs[j]) THEN ProcessVerified(s, r, sigs, j + 1)
    ELSE IF ~InOrder(r.c, sigs[j])
    THEN ProcessVerified(s, [c |-> TouchSequence(r.c, sigs[j].sender), out |-> r.out \cup {sigs[j]}], sigs, j + 1)
    ELSE ProcessVerified(s, [c |-> processNewSig(r.c, sigs[j]), out |-> r.out], sigs, j + 1)

\* _receiveMessage, third part: the loop over outOfOrderSigs until none is processed
ProcessOutOfOrder(r) == processSigs(r.c, r.out)

_receiveMessage_sigs(s, i, message) ==
    [s EXCEPT !.cac[i] = ProcessOutOfOrder(ProcessVerified(s, [c |-> StoreMessage(@, message.optBroadcastMessage),
                                                               out |-> {}], message.sigs, 1))]

_receiveMessage_dispatch(s, i, kind) ==
    IF kind = WITNESS_CODE THEN receivedWitness(s, i)
    ELSE IF kind = READY_CODE THEN receivedReady(s, i)
    ELSE s

_receiveMessage(s, i, message) == _receiveMessage_dispatch(_receiveMessage_sigs(s, i, message), i, message.witnessOrReady)

\* (s.cacRun[i] remembers, of the last outermost receiveMessage of instance i:
\* the messages pushed, in order; the messages _receiveMessage was called
\* with, in order, each with the number of _receiveMessage calls of the
\* instance that had not returned yet; and that number now)
NoRun == [pushed |-> <<>>, processed |-> <<>>, depth |-> 0]
Pushed(s, i, message) == [s EXCEPT !.cacRun[i].pushed = Append(@, message)]
Entered(s, i, message) ==
    [s EXCEPT !.cacRun[i] = [@ EXCEPT !.processed = Append(@, [msg |-> message, depth |-> s.cacRun[i].depth]),
                                      !.depth = @ + 1]]
Left(s, i) == IF s.crashed THEN s ELSE [s EXCEPT !.cacRun[i].depth = @ - 1]

\* while(!m_messageQueue.empty()) { pop; _receiveMessage(msg); }
RECURSIVE CAC_drain(_, _)
CAC_drain(s, i) ==
    IF s.crashed \/ s.cac[i].messageQueue = <<>> THEN s
    ELSE CAC_drain(Left(_receiveMessage(Entered([s EXCEPT !.cac[i].messageQueue = Tail(@)], i,
                                                Head(s.cac[i].messageQueue)),
                                        i, Head(s.cac[i].messageQueue)), i), i)

Unlock(s, i) == [s EXCEPT !.cac[i].messageQueueLock = FALSE]

\* receiveMessage without the lock: every call runs the loop
CAC_receiveMessage_reentrant(s, i, message) ==
    Unlock(CAC_drain(Pushed([s EXCEPT !.cac[i] = [@ EXCEPT !.messageQueue = Append(@, message),
                                                            !.messageQueueLock = TRUE]], i, message), i), i)

CAC_receiveMessage(s, i, message) ==
    IF ~s.cac[i].messageQueueLock
    THEN Unlock(CAC_drain(Pushed([s EXCEPT !.cac[i] = [@ EXCEPT !.messageQueue = Append(@, message),
                                                                !.messageQueueLock = TRUE],
                                           !.cacRun[i] = NoRun], i, message), i), i)
    ELSE Pushed([s EXCEPT !.cac[i].messageQueue = Append(@, message)], i, message)

(***************************************************************************)
(* Network timers: s.timers is m_timeouts, s.timeoutCounter the next id    *)
(***************************************************************************)
\* (a timeout also remembers the epoch its member was in when it was registered)
registerTimeout(s, cb) ==
    [s EXCEPT !.timers = @ \cup {[id |-> s.timeoutCounter, cb |-> cb, epoch |-> s.epoch]}, !.timeoutCounter = @ + 1]

\* (s.unregistered remembers the ids unregisterTimeout was called with)
unregisterTimeout(s, id) == [s EXCEPT !.timers = {tm \in @ : tm.id # id}, !.unregistered = @ \cup {id}]

(***************************************************************************)
(* CascadeConsensus: what it writes to the network                         *)
(***************************************************************************)
CascadeConsensusMessage(inst, kind, content) == [instance |-> inst, kind |-> kind, content |-> content]
CCEnvelope(s, cc) == [type |-> "ccm", content |-> Protect(s, cc)]

broadcastRCMessage(s, message, recipients) ==
    Network_broadcastSample(s, recipients, CCEnvelope(s, CascadeConsensusMessage(1, "rc", message)))

broadcastFullConsensusMessage(s, message) ==
    Network_broadcast(s, CCEnvelope(s, CascadeConsensusMessage(0, "fc", message)))

sendFullConsensusMessage(s, message, recipient) ==
    Network_send(s, recipient, CCEnvelope(s, CascadeConsensusMessage(0, "fc", message)))

\* std::sort of a vector of references
RECURSIVE SortRefs(_)
SortRefs(q) ==
    IF q = <<>> THEN <<>>
    ELSE LET j == CHOOSE a \in DOMAIN q : \A b \in DOMAIN q : RefRank(q[a]) <= RefRank(q[b])
         IN <<q[j]>> \o SortRefs(SubSeq(q, 1, j - 1) \o SubSeq(q, j + 1, Len(q)))

handleRCDeliver(s, set, sigs, retractSigs) ==
    CAC_broadcast(s, 2, CAC2Content(SortRefs(set), sigs \cup retractSigs))

handleRCBottom_broadcast(s) == CAC_broadcast(s, 2, CAC2Content(s.delivered, s.cac[1].validSignatures))
handleRCBottom(s) == handleRCBottom_broadcast([s EXCEPT !.delivered = SortRefs(@)])

(***************************************************************************)
(* RestrainedConsensus (s.rc)                                              *)
(***************************************************************************)
RCInit == [retract |-> FALSE, hasDelivered |-> FALSE, hasFinished |-> FALSE, powerSet |-> {},
           signed |-> EmptyMap, retracted |-> <<>>, timeout |-> NoVal]

\* (s.rcLog is the history of the instance: what it did, "propose" and "retract"
\* for what it broadcast, "decide" and "bottom" for the callback it invoked, each
\* with the number of newEpoch calls before it, the power set the instance held
\* and, for "decide", the subset decided and the members whose signature on it
\* the instance held)
Record(s, what, set, signers) ==
    [s EXCEPT !.rcLog = Append(@, [era |-> s.cacEra[1], what |-> what, power |-> s.rc.powerSet,
                                   set |-> set, signers |-> signers])]
Logged(s, what) == Record(s, what, {}, {})

RC_resetTimeout(s) ==
    IF s.rc.timeout # NoVal THEN [unregisterTimeout(s, s.rc.timeout.id) EXCEPT !.rc.timeout = NoVal] ELSE s

RC_newEpoch(s) ==
    RC_resetTimeout([s EXCEPT !.rc = [@ EXCEPT !.retract = FALSE, !.hasDelivered = FALSE, !.hasFinished = FALSE,
                                               !.powerSet = {}, !.signed = EmptyMap, !.retracted = <<>>]])

\* handleRetract(const LeafIndex &): drop every subset that names the retracted member
RC_dropRetracted(rc, retracted) == [rc EXCEPT !.powerSet = {elt \in @ : \A pair \in elt : pair[1] # retracted}]

RC_bottom(s) ==
    IF s.rc.hasFinished THEN s
    ELSE Call(RC_resetTimeout(Logged([s EXCEPT !.rc.hasFinished = TRUE], "bottom")), "handleRCBottom", <<>>)

Biggest(rc) == {elt \in rc.powerSet : \A o \in rc.powerSet : Cardinality(o) <= Cardinality(elt)}
TheBiggest(rc) == CHOOSE elt \in Biggest(rc) : TRUE
BiggestSigs(rc) == Get(rc.signed, TheBiggest(rc), EmptyMap)

checkCompletion_decide(s, biggest, biggestSigs) ==
    IF Cardinality(DOMAIN biggestSigs) = Cardinality(biggest)
    THEN Call(RC_resetTimeout(Record([s EXCEPT !.rc.hasFinished = TRUE, !.rc.signed = Put(@, biggest, biggestSigs)],
                                     "decide", biggest, DOMAIN biggestSigs)),
              "handleRCDeliver",
              <<SetSeq({pair[2] : pair \in biggest}), {biggestSigs[p] : p \in DOMAIN biggestSigs},
                Range(s.rc.retracted)>>)
    ELSE [s EXCEPT !.rc.signed = Put(@, biggest, biggestSigs)]

checkCompletion(s) ==
    IF s.rc.powerSet = {} THEN s
    ELSE IF Cardinality(Biggest(s.rc)) # 1 THEN RC_bottom(s)
    ELSE checkCompletion_decide(s, TheBiggest(s.rc), BiggestSigs(s.rc))

getParticipants(pairs) == {pair[1] : pair \in pairs}

MySubsets(s, power) == {elt \in power : \E pair \in elt : pair[1] = s.id}
RetractedIds(rc) == {rc.retracted[j].sender : j \in DOMAIN rc.retracted}

RC_propose_sign(s, power, mine) ==
    [s EXCEPT !.rc = [@ EXCEPT !.hasDelivered = TRUE,
                               !.signed = [elt \in (DOMAIN @) \cup mine |->
                                              IF elt \in mine
                                              THEN Put(Get(s.rc.signed, elt, EmptyMap), s.id, Sign(s, [set |-> elt]))
                                              ELSE s.rc.signed[elt]],
                               !.powerSet = {elt \in power : \A pair \in elt : pair[1] \notin RetractedIds(s.rc)}]]

RC_propose_broadcast(s, conflictSet, sigs, mine) ==
    broadcastRCMessage(s, [restrainedCons |-> [sigSet |-> SetSeq({Sign(s, [set |-> elt]) : elt \in mine}),
                                               powerConflictSet |-> s.rc.powerSet, proofs |-> sigs]],
                       getParticipants(Range(conflictSet)))

RC_propose_timeout(s) == [registerTimeout(s, "rcBottom") EXCEPT !.rc.timeout = [id |-> s.timeoutCounter]]

\* A propose that does not look at m_retract
RC_propose_retracted(s, conflictSet, sigs) ==
    IF ~s.rc.hasDelivered
    THEN RC_propose_timeout(RC_propose_broadcast(
             RC_propose_sign(Logged(s, "propose"), SUBSET Range(conflictSet), MySubsets(s, SUBSET Range(conflictSet))),
             conflictSet, sigs, MySubsets(s, SUBSET Range(conflictSet))))
    ELSE s

RC_propose(s, conflictSet, sigs) ==
    IF ~s.rc.retract /\ ~s.rc.hasDelivered
    THEN RC_propose_timeout(RC_propose_broadcast(
             RC_propose_sign(Logged(s, "propose"), SUBSET Range(conflictSet), MySubsets(s, SUBSET Range(conflictSet))),
             conflictSet, sigs, MySubsets(s, SUBSET Range(conflictSet))))
    ELSE s

\* "check there's no gap": per sender the largest sequence among the proofs
\* must not exceed the number of that sender's proofs minus one.
ProofsHaveGap(proofs) ==
    \E p \in {sig.sender : sig \in proofs} :
        LET seqs == {sig.body.sequence : sig \in {x \in proofs : x.sender = p}}
        IN \E q \in seqs : q > Cardinality(seqs) - 1

handleRestrainedCons_record(s, sender, signedSet) ==
    [s EXCEPT !.rc.signed = [elt \in (DOMAIN @) \cup {sig.body.set : sig \in signedSet} |->
                                IF elt \in {sig.body.set : sig \in signedSet}
                                THEN Put(Get(s.rc.signed, elt, EmptyMap), sender,
                                         CHOOSE sig \in signedSet : sig.body.set = elt)
                                ELSE s.rc.signed[elt]]]

handleRestrainedCons(s, content) ==
    IF \E sig \in content.proofs : ~verifyAndConvert(s, sig) THEN RC_bottom(s)
    ELSE IF ProofsHaveGap(content.proofs) THEN RC_bottom(s)
    ELSE IF content.sigSet = <<>> THEN RC_bottom(s)
    ELSE IF \E j \in DOMAIN content.sigSet :
                ~Verify(s, content.sigSet[j]) \/ DOMAIN content.sigSet[j].body # {"set"}
         THEN RC_bottom(s)
    ELSE IF s.rc.hasDelivered
         THEN checkCompletion(handleRestrainedCons_record(s, content.sigSet[1].sender, Range(content.sigSet)))
         ELSE broadcastRCMessage(Logged([s EXCEPT !.rc.retract = TRUE], "retract"), [retract |-> Sign(s, [retract |-> TRUE])],
                                 getParticipants(UNION {e \in content.powerConflictSet : Cardinality(e) = 1}))

handleRetract(s, retract) ==
    IF retract.epoch # s.epoch THEN s
    ELSE IF ~Verify(s, retract) THEN s
    ELSE IF \E j \in DOMAIN s.rc.retracted : s.rc.retracted[j].sender = retract.sender THEN s
    ELSE checkCompletion([s EXCEPT !.rc = RC_dropRetracted([@ EXCEPT !.retracted = Append(@, retract)], retract.sender)])

\* A receiveMessage that goes on after the instance has finished
RC_receiveMessage_unfinished(s, message) ==
    IF "restrainedCons" \in DOMAIN message THEN handleRestrainedCons(s, message.restrainedCons)
    ELSE IF "retract" \in DOMAIN message THEN handleRetract(s, message.retract)
    ELSE s

RC_receiveMessage(s, message) ==
    IF s.rc.hasFinished THEN s
    ELSE IF "restrainedCons" \in DOMAIN message THEN handleRestrainedCons(s, message.restrainedCons)
    ELSE IF "retract" \in DOMAIN message THEN handleRetract(s, message.retract)
    ELSE s

(***************************************************************************)
(* FullConsensus<CAC2Content> (s.fc)                                       *)
(***************************************************************************)
FCInit == [f |-> 0, currentView |-> 0, currentLeaderIdx |-> 0, futureMessages |-> EmptyMap,
           messages |-> EmptyMap, proposedMessage |-> NoVal, prePreparedMessage |-> NoVal,
           hasSentPrePrepare |-> FALSE, hasSentPrepare |-> FALSE, hasSentCommit |-> FALSE,
           signedPrepare |-> EmptyMap, signedCommit |-> EmptyMap, signedNewView |-> {},
           timeout |-> NoVal, forwardTimeout |-> NoVal]


RECURSIVE Ascending(_)
Ascending(S) == IF S = {} THEN <<>> ELSE <<(CHOOSE x \in S : \A y \in S : x <= y)>> \o Ascending(S \ {(CHOOSE x \in S : \A y \in S : x <= y)})

SortedMembers(s) == Ascending(s.members)

Leader(s, view) == SortedMembers(s)[((view + s.epoch) % Cardinality(s.members)) + 1]

Quorum(fc) == 2 * fc.f + 1

\* (s.fcSeen is the set of the signatures the instance took in: of which
\* message type, by whom, for which view and reference, in which epoch.
\* s.fcLog is the history of what the instance did: "epoch" for newEpoch,
\* "view" for a change of view, "prepare" and "commit" for the signature it
\* broadcast, "deliver" for the callback it invoked; each with the epoch, the
\* members and the view of the moment, the reference, the members whose
\* signatures led to it, and the view named: the one signed for, or moved to)
Seen(s, t, sender, view, ref) ==
    [s EXCEPT !.fcSeen = @ \cup {[t |-> t, by |-> sender, view |-> view, ref |-> ref, epoch |-> s.epoch]}]

SeenBy(s, t, view, ref) ==
    {x.by : x \in {y \in s.fcSeen : y.t = t /\ y.view = view /\ y.ref = ref /\ y.epoch = s.epoch}}

Noted(s, what, ref, signers, to) ==
    [s EXCEPT !.fcLog = Append(@, [what |-> what, epoch |-> s.epoch, members |-> s.members,
                                   view |-> s.fc.currentView, ref |-> ref, signers |-> signers, to |-> to])]

ConsensusMessageContent(s, view, ref) == Sign(s, [view |-> view, consensusMessage |-> ref])

resetTimers_forward(s) ==
    IF s.fc.forwardTimeout # NoVal
    THEN [unregisterTimeout(s, s.fc.forwardTimeout.id) EXCEPT !.fc.forwardTimeout = NoVal] ELSE s

resetTimers(s) ==
    resetTimers_forward(IF s.fc.timeout # NoVal
                        THEN [unregisterTimeout(s, s.fc.timeout.id) EXCEPT !.fc.timeout = NoVal] ELSE s)

SetForwardTimeout(s) == [registerTimeout(s, "fcForward") EXCEPT !.fc.forwardTimeout = [id |-> s.timeoutCounter]]
SetProposeTimeout(s) == [registerTimeout(s, "fcPropose") EXCEPT !.fc.timeout = [id |-> s.timeoutCounter]]

handlePropose(s, proposed) ==
    IF s.fc.currentLeaderIdx = s.id /\ ~s.fc.hasSentPrePrepare
    THEN broadcastFullConsensusMessage(
             [s EXCEPT !.fc.messages = Put(@, Ref(proposed), proposed), !.fc.hasSentPrePrepare = TRUE],
             [t |-> "PRE_PREPARE",
              signedContent |-> ConsensusMessageContent(s, s.fc.currentView, Ref(proposed)),
              proposedMessage |-> proposed])
    ELSE SetForwardTimeout(sendFullConsensusMessage(
             [s EXCEPT !.fc.messages = Put(@, Ref(proposed), proposed)],
             [t |-> "PROPOSE", view |-> s.fc.currentView, content |-> proposed],
             s.fc.currentLeaderIdx))

proposeCurrentValue(s) ==
    IF s.fc.currentLeaderIdx = s.id THEN handlePropose(s, s.fc.proposedMessage)
    ELSE SetProposeTimeout(sendFullConsensusMessage(s,
             [t |-> "PROPOSE", view |-> s.fc.currentView, content |-> s.fc.proposedMessage],
             s.fc.currentLeaderIdx))

FC_propose(s, proposedMessage) ==
    IF s.fc.proposedMessage # NoVal THEN s
    ELSE IF ~s.fc.hasSentPrepare THEN proposeCurrentValue([s EXCEPT !.fc.proposedMessage = proposedMessage])
    ELSE [s EXCEPT !.fc.proposedMessage = proposedMessage]

handleProposeTimeout(s) ==
    SetForwardTimeout(broadcastFullConsensusMessage(s,
        [t |-> "PROPOSE", view |-> s.fc.currentView,
         content |-> IF s.fc.prePreparedMessage # NoVal THEN s.fc.prePreparedMessage ELSE s.fc.proposedMessage]))

handleForwardTimeout(s) ==
    broadcastFullConsensusMessage(s, [t |-> "VIEW_CHANGE", signed |-> Sign(s, [view |-> s.fc.currentView + 1])])

handlePrePrepare_prepare(s, sender, content, proposed) ==
    IF ~s.fc.hasSentPrepare
    THEN broadcastFullConsensusMessage(
             SetProposeTimeout(Noted([s EXCEPT !.fc.hasSentPrepare = TRUE, !.fc.proposedMessage = proposed],
                                     "prepare", content.consensusMessage, {sender}, content.view)),
             [t |-> "PREPARE",
              signedContent |-> ConsensusMessageContent(s, s.fc.currentView, content.consensusMessage)])
    ELSE s

\* An instance that takes the PRE_PREPARE of any member.
handlePrePrepare_anyone(s, sender, content, proposed) ==
    IF s.fc.currentLeaderIdx = s.id THEN s
    ELSE handlePrePrepare_prepare(resetTimers([s EXCEPT !.fc.messages = Put(@, Ref(proposed), proposed)]),
                                  sender, content, proposed)

handlePrePrepare(s, sender, content, proposed) ==
    IF s.fc.currentLeaderIdx = s.id \/ sender # s.fc.currentLeaderIdx THEN s
    ELSE handlePrePrepare_prepare(resetTimers([s EXCEPT !.fc.messages = Put(@, Ref(proposed), proposed)]),
                                  sender, content, proposed)

\* An instance that sends its COMMIT on the PREPARE signatures of f + 1 members.
handlePrepare_commit_minority(s, ref) ==
    IF Cardinality(s.fc.signedPrepare[ref]) >= s.fc.f + 1 /\ ~s.fc.hasSentCommit
    THEN broadcastFullConsensusMessage(
             resetTimers(Noted([s EXCEPT !.fc.hasSentCommit = TRUE], "commit", ref,
                               SeenBy(s, "PREPARE", s.fc.currentView, ref), s.fc.currentView)),
             [t |-> "COMMIT", signedContent |-> ConsensusMessageContent(s, s.fc.currentView, ref)])
    ELSE s

handlePrepare_commit(s, ref) ==
    IF Cardinality(s.fc.signedPrepare[ref]) >= Quorum(s.fc) /\ ~s.fc.hasSentCommit
    THEN broadcastFullConsensusMessage(
             resetTimers(Noted([s EXCEPT !.fc.hasSentCommit = TRUE], "commit", ref,
                               SeenBy(s, "PREPARE", s.fc.currentView, ref), s.fc.currentView)),
             [t |-> "COMMIT", signedContent |-> ConsensusMessageContent(s, s.fc.currentView, ref)])
    ELSE s

handlePrepare(s, sender, content) ==
    handlePrepare_commit(Seen([s EXCEPT !.fc.signedPrepare = Put(@, content.consensusMessage,
                                                                 Get(@, content.consensusMessage, {}) \cup {sender})],
                              "PREPARE", sender, content.view, content.consensusMessage),
                         content.consensusMessage)

\* m_messages[ref] default-constructs the content when the reference is unknown
FC_handleCommit_deliver(s, ref) ==
    IF Cardinality(s.fc.signedCommit[ref]) >= Quorum(s.fc)
    THEN Call(Noted([s EXCEPT !.fc.messages = Put(@, ref, Get(@, ref, EmptyContent))], "deliver", ref,
                    SeenBy(s, "COMMIT", s.fc.currentView, ref), s.fc.currentView),
              "handleFullConsensusDelivery", <<Get(s.fc.messages, ref, EmptyContent)>>)
    ELSE s

FC_handleCommit(s, sender, content) ==
    FC_handleCommit_deliver(Seen([s EXCEPT !.fc.signedCommit = Put(@, content.consensusMessage,
                                                                   Get(@, content.consensusMessage, {}) \cup {sender})],
                                 "COMMIT", sender, content.view, content.consensusMessage),
                            content.consensusMessage)

\* m_futureMessages[view].push(message)
FC_defer(s, view, message) == [s EXCEPT !.fc.futureMessages = Put(@, view, Append(Get(@, view, <<>>), message))]

handleViewChange_newView(s, view) ==
    IF Cardinality(s.fc.signedNewView) >= Quorum(s.fc)
    THEN Call(Noted(s, "view", NoVal, SeenBy(s, "VIEW_CHANGE", view, NoVal), view), "newView", <<view>>)
    ELSE s

handleViewChange(s, sender, view) ==
    handleViewChange_newView(Seen([s EXCEPT !.fc.signedNewView = @ \cup {sender}], "VIEW_CHANGE", sender, view, NoVal),
                             view)

\* while(!m_futureMessages[view].empty()) { pop; receiveMessage(message); }
RECURSIVE FC_replay(_, _)
FC_replay(s, view) ==
    IF Get(s.fc.futureMessages, view, <<>>) = <<>> \/ s.crashed
    THEN [s EXCEPT !.fc.futureMessages = Put(@, view, <<>>)]
    ELSE FC_replay(Call([s EXCEPT !.fc.futureMessages = Put(@, view, Tail(@[view]))],
                        "FC_receiveMessage", <<Head(s.fc.futureMessages[view])>>), view)

newView_propose(s) ==
    IF s.fc.proposedMessage # NoVal /\ ~s.fc.hasSentPrepare /\ ~s.fc.hasSentPrePrepare
    THEN proposeCurrentValue(s) ELSE s

newView(s, view) ==
    newView_propose(FC_replay(
        resetTimers([s EXCEPT !.fc = [@ EXCEPT !.currentView = view, !.currentLeaderIdx = Leader(s, view),
                                               !.prePreparedMessage = NoVal,
                                               !.hasSentPrePrepare = FALSE, !.hasSentPrepare = FALSE,
                                               !.hasSentCommit = FALSE,
                                               !.signedPrepare = EmptyMap, !.signedCommit = EmptyMap,
                                               !.signedNewView = {}]]),
        view))

FC_newEpoch(s) ==
    newView(Noted([s EXCEPT !.fc = [@ EXCEPT !.f = (Cardinality(s.members) - 1) \div 3,
                                             !.futureMessages = EmptyMap, !.messages = EmptyMap,
                                             !.proposedMessage = NoVal]], "epoch", NoVal, {}, 0), 0)

\* getContentIfReady: the signed content of a PRE_PREPARE, PREPARE or COMMIT
ContentVerified(s, ac) == Verify(s, ac) /\ DOMAIN ac.body = {"view", "consensusMessage"}

FC_receiveSigned(s, message, ac) ==
    IF ~ContentVerified(s, ac) THEN s
    ELSE IF ac.body.view > s.fc.currentView THEN FC_defer(s, ac.body.view, message)
    ELSE IF ac.body.view < s.fc.currentView THEN s
    ELSE IF message.t = "PRE_PREPARE" THEN handlePrePrepare(s, ac.sender, ac.body, message.proposedMessage)
    ELSE IF message.t = "PREPARE" THEN handlePrepare(s, ac.sender, ac.body)
    ELSE FC_handleCommit(s, ac.sender, ac.body)

FC_receiveViewChange(s, message, ac) ==
    IF ~(Verify(s, ac) /\ DOMAIN ac.body = {"view"}) THEN s
    ELSE IF ac.body.view = s.fc.currentView + 1 THEN handleViewChange(s, ac.sender, ac.body.view)
    ELSE IF ac.body.view > s.fc.currentView THEN FC_defer(s, ac.body.view, message)
    ELSE s

FC_receiveMessage(s, message) ==
    IF message.t = "PROPOSE"
    THEN IF message.view = s.fc.currentView THEN handlePropose(s, message.content)
         ELSE IF message.view > s.fc.currentView THEN FC_defer(s, message.view, message)
         ELSE s
    ELSE IF message.t \in {"PRE_PREPARE", "PREPARE", "COMMIT"} THEN FC_receiveSigned(s, message, message.signedContent)
    ELSE IF message.t = "VIEW_CHANGE" THEN FC_receiveViewChange(s, message, message.signed)
    ELSE s

(***************************************************************************)
(* CascadeConsensus: handlers                                              *)
(***************************************************************************)
cacBroadcastCallback(s, i, cacMessage) ==
    CAC_receiveMessage(Network_broadcast(s, CCEnvelope(s, CascadeConsensusMessage(i, IF i = 1 THEN "cac" ELSE "cac2",
                                                                                  cacMessage))),
                       i, cacMessage)

\* The references of a list that name a payload instance 1 holds.
KnownRefs(s, refs) == SelectSeq(refs, LAMBDA ref : ref \in DOMAIN s.cac[1].messages)

\* The commits a CAC2Content names and whose payload instance 1 holds.
KnownChoices(s, content) ==
    [j \in 1..Len(KnownRefs(s, content.conflictingMessages)) |->
        s.cac[1].messages[KnownRefs(s, content.conflictingMessages)[j]]]

\* (s.choiceLog is the history of the applications of m_choice: the number of
\* refs the decided content names and the length of the candidate list built
\* from it)
Applied(s, content) ==
    [s EXCEPT !.choiceLog = Append(@, [epoch |-> s.epoch, named |-> Len(content.conflictingMessages),
                                       choices |-> Len(KnownChoices(s, content))])]

\* A delivery that hands the chosen commit over under the member's own name.
DeliverChoice_resigned(s, content) ==
    IF ChoiceDefined(s, KnownChoices(s, content))
    THEN Call(Applied(s, content), "handleConsensusDelivery",
              <<[chooseCommit(s, KnownChoices(s, content)) EXCEPT !.sender = s.id, !.id = @ + 1000]>>)
    ELSE [Applied(s, content) EXCEPT !.crashed = TRUE]

\* m_deliver(m_choice(choices)) of handleCAC2Delivery and handleFullConsensusDelivery
DeliverChoice(s, content) ==
    IF ChoiceDefined(s, KnownChoices(s, content))
    THEN Call(Applied(s, content), "handleConsensusDelivery", <<chooseCommit(s, KnownChoices(s, content))>>)
    ELSE [Applied(s, content) EXCEPT !.crashed = TRUE]

SenderConflictSet(s, known) == [j \in 1..Len(known) |-> <<s.cac[1].messages[known[j]].sender, known[j]>>]

handleCAC1Delivery_conflict(s, message, conflictSet, sigs) ==
    IF ~IsCommitOf(s, message) THEN [s EXCEPT !.crashed = TRUE]
    ELSE IF message.sender = s.id
    THEN IF \E j \in DOMAIN KnownRefs(s, conflictSet) :
                ~IsCommitOf(s, s.cac[1].messages[KnownRefs(s, conflictSet)[j]])
         THEN [s EXCEPT !.crashed = TRUE]
         ELSE Call(s, "RC_propose", <<SenderConflictSet(s, KnownRefs(s, conflictSet)), sigs>>)
    ELSE IF s.RCTimeout = NoVal
    THEN [registerTimeout(s, "rcTimeout") EXCEPT !.RCTimeout = [id |-> s.timeoutCounter]]
    ELSE s

handleCAC1Delivery(s, message, conflictSet, sigs) ==
    IF Len(conflictSet) = 1
    THEN Call([s EXCEPT !.delivered = Append(@, Ref(message))], "handleConsensusDelivery", <<message>>)
    ELSE handleCAC1Delivery_conflict([s EXCEPT !.delivered = Append(@, Ref(message))], message, conflictSet, sigs)

resetRCTimeout(s) ==
    IF s.RCTimeout # NoVal THEN [unregisterTimeout(s, s.RCTimeout.id) EXCEPT !.RCTimeout = NoVal] ELSE s

handleCAC2Delivery_decide(s, message, conflictSet) ==
    IF Len(conflictSet) = 1 THEN DeliverChoice(s, message)
    ELSE IF ~s.consensusProposed THEN Call([s EXCEPT !.consensusProposed = TRUE], "FC_propose", <<message>>)
    ELSE s

handleCAC2Delivery(s, message, conflictSet, sigs) == handleCAC2Delivery_decide(resetRCTimeout(s), message, conflictSet)

handleFullConsensusDelivery(s, decidedContent) == DeliverChoice(s, decidedContent)

handleCAC2Candidate(s, content) == validateMessage(s, 2, content)

\* s.cacDelivered is the history of the calls: what was delivered, with which conflict set
cacDelivery(s, i, message, conflictSet) ==
    [inst |-> i, epoch |-> s.epoch, message |-> Ref(message), conflictSet |-> Range(conflictSet)]

cacDeliverCallback_recorded(s, i, message, conflictSet, sigs) ==
    IF i = 1 THEN handleCAC1Delivery(s, message, conflictSet, sigs)
    ELSE handleCAC2Delivery(s, message, conflictSet, sigs)

cacDeliverCallback(s, i, message, conflictSet, sigs) ==
    cacDeliverCallback_recorded([s EXCEPT !.cacDelivered = Append(@, cacDelivery(s, i, message, conflictSet))],
                                i, message, conflictSet, sigs)

Cascade_newEpoch_consensus(s) == [Call(s, "FC_newEpoch", <<>>) EXCEPT !.consensusProposed = FALSE]

Cascade_newEpoch(s) ==
    Cascade_newEpoch_consensus(resetRCTimeout(
        [RC_newEpoch(CAC_newEpoch(CAC_newEpoch([s EXCEPT !.cascState = TRUE], 1), 2)) EXCEPT !.delivered = <<>>]))

Cascade_receiveMessage(s, msg) ==
    IF msg.kind \in {"cac", "cac2"}
    THEN IF msg.instance = 1 /\ msg.kind = "cac" THEN CAC_receiveMessage(s, 1, msg.content)
         ELSE IF msg.instance = 2 /\ msg.kind = "cac2" THEN CAC_receiveMessage(s, 2, msg.content)
         ELSE s
    ELSE IF msg.kind = "rc" THEN Call(s, "RC_receiveMessage", <<msg.content>>)
    ELSE IF msg.kind = "fc" THEN Call(s, "FC_receiveMessage", <<msg.content>>)
    ELSE s

Cascade_proposeCommit(s, commit) == CAC_broadcast(s, 1, commit)
validateCommit(s, commit) == validateMessage(s, 1, commit)
cac1HasStarted(s) == hasStarted(s, 1)

(***************************************************************************)
(* GossipBcast (s.received, s.idsSample, s.computedSample)                 *)
(***************************************************************************)
MINIMUM_PEERS == 6

DDSGossip(m) == [type |-> "gossip", content |-> [bcastMessage |-> m]]
DDSSubscribe(id) == [type |-> "gossip", content |-> [subscriberId |-> id]]

\* for(sampled : sample) { subscribe(sampled); m_idsSample.insert(sampled); }
RECURSIVE SubscribeAll(_, _)
SubscribeAll(s, ids) ==
    IF ids = {} THEN s
    ELSE LET id == CHOOSE x \in ids : \A y \in ids : x <= y
         IN SubscribeAll([Network_send(s, id, DDSSubscribe(s.id)) EXCEPT !.idsSample = @ \cup {id}], ids \ {id})

\* m_computedSample is a vector: the identities of m_idsSample in the order of the set
RECURSIVE IdSeq(_)
IdSeq(ids) == IF ids = {} THEN <<>> ELSE <<CHOOSE x \in ids : \A y \in ids : x <= y>> \o IdSeq(ids \ {CHOOSE x \in ids : \A y \in ids : x <= y})

computeSample(s) == [s EXCEPT !.computedSample = IdSeq(s.idsSample)]

\* std::sample(difference, k, std::mt19937{std::random_device{}()}): k of the
\* candidates, all of them when there are no more than k.  Which ones is up to
\* the generator: s.lot is the order in which this member's generator brings
\* the identities up, and any order is possible.
sample(s, difference, k) ==
    IF Cardinality(difference) <= k THEN difference
    ELSE {s.lot[i] : i \in {j \in DOMAIN s.lot :
                                /\ s.lot[j] \in difference
                                /\ Cardinality({h \in 1..j : s.lot[h] \in difference}) <= k}}

\* updateSample followed by computeSample when the sample changed.
\* expectedMin = max(log10(|members|), MINIMUM_PEERS) is MINIMUM_PEERS in any group of fewer than 10^7.
updateSample(s, updated) ==
    IF Cardinality(s.idsSample) < MINIMUM_PEERS /\ Cardinality(s.idsSample) < Cardinality(s.members \ {s.id})
    THEN computeSample(SubscribeAll(s, sample(s, (s.members \ {s.id}) \ s.idsSample,
                                             MINIMUM_PEERS - Cardinality(s.idsSample))))
    ELSE IF updated THEN computeSample(s) ELSE s

Gossip_init(s) == computeSample(updateSample(s, TRUE))

Gossip_newEpoch(s, removed) ==
    updateSample([s EXCEPT !.received = {}, !.idsSample = @ \ removed, !.gossipEra = @ + 1],
                 s.idsSample \cap removed # {})

(***************************************************************************)
(* MLSClient: the callbacks the delivery service calls                     *)
(***************************************************************************)
RECURSIVE PropsCode(_)
PropsCode(props) == IF props = {} THEN 0
                    ELSE (CHOOSE y \in props : TRUE) + PropsCode(props \ {CHOOSE y \in props : TRUE})
CommitId(e, p, props) == e * 100 + p * 10 + PropsCode(props)

\* A client that arms its commit timer whenever none is armed.
Client_handleProposalOrMessage_rearmed(s, message) ==
    IF isValidApplicationMessage(s, message)
    THEN [s EXCEPT !.shown = Append(@, message)]
    ELSE IF isValidProposal(s, message)
    THEN IF s.commitTimeout = NoVal
         THEN [registerTimeout(s, "commit") EXCEPT !.pending = @ \cup {message},
                                                   !.commitTimeout = [id |-> s.timeoutCounter]]
         ELSE [s EXCEPT !.pending = @ \cup {message}]
    ELSE s

Client_handleProposalOrMessage(s, message) ==
    IF isValidApplicationMessage(s, message)
    THEN [s EXCEPT !.shown = Append(@, message)]
    ELSE IF isValidProposal(s, message)
    THEN IF s.commitTimeout = NoVal /\ s.clientProposedCommit = NoVal
         THEN [registerTimeout(s, "commit") EXCEPT !.pending = @ \cup {message},
                                                   !.commitTimeout = [id |-> s.timeoutCounter]]
         ELSE [s EXCEPT !.pending = @ \cup {message}]
    ELSE s

\* MLSClient::handleCommit when the commit is valid: the next epoch's state.
Client_handleCommit_timeout(s) ==
    IF s.commitTimeout # NoVal
    THEN [unregisterTimeout(s, s.commitTimeout.id) EXCEPT !.commitTimeout = NoVal]
    ELSE s

\* A client whose commit handling moves two epochs ahead.
Client_handleCommit_twoEpochs(s, message) ==
    Client_handleCommit_timeout([s EXCEPT !.conn = (@ \cup message.added) \ message.removed,
                                          !.members = (@ \cup message.added) \ message.removed,
                                          !.epoch = @ + 2, !.pending = {},
                                          !.clientProposedCommit = NoVal])

Client_handleCommit(s, message) ==
    Client_handleCommit_timeout([s EXCEPT !.conn = (@ \cup message.added) \ message.removed,
                                          !.members = (@ \cup message.added) \ message.removed,
                                          !.epoch = @ + 1, !.pending = {},
                                          !.clientProposedCommit = NoVal])

(***************************************************************************)
(* DistributedDeliveryService                                              *)
(***************************************************************************)
sendWelcome(s, added, welcome) == Network_broadcastSample(s, added, welcome)

\* (s.validated is the history of the calls: the commit handed to
\* validateCommit, the epoch and the proposals received at that moment)
handleCompleteCommit(s, message) ==
    validateCommit([s EXCEPT !.validated = Append(@, [commit |-> message, epoch |-> s.epoch,
                                                      known |-> s.receivedProposals])],
                   message)

DDS_handleCommit(s, message) ==
    IF isValidCommit(s, message)
    THEN IF message.props \ s.receivedProposals = {} THEN handleCompleteCommit(s, message)
         ELSE IF message \in DOMAIN s.incompleteCommits THEN s
         ELSE [s EXCEPT !.incompleteCommits = Put(@, message, message.props \ s.receivedProposals)]
    ELSE s

transmitCallback(s, i, message) ==
    IF i = 1 THEN DDS_handleCommit(s, message)
    ELSE handleCAC2Candidate(s, message)

\* One commit of the loop of lookUnlockCommits.  The reference `remaining`
\* is used after the erase of its map entry (s.ub).
UnlockOne(s, commit, newRef) ==
    IF commit \in DOMAIN s.incompleteCommits /\ newRef \in s.incompleteCommits[commit]
    THEN IF s.incompleteCommits[commit] \ {newRef} = {}
         THEN Call([s EXCEPT !.incompleteCommits = [c \in (DOMAIN @) \ {commit} |-> @[c]], !.ub = TRUE],
                   "handleCompleteCommit", <<commit>>)
         ELSE [s EXCEPT !.incompleteCommits = Put(@, commit, @[commit] \ {newRef})]
    ELSE s

RECURSIVE UnlockAll(_, _, _)
UnlockAll(s, commits, newRef) ==
    IF commits = {} THEN s
    ELSE UnlockAll(UnlockOne(s, CHOOSE c \in commits : \A d \in commits : c.id <= d.id, newRef),
                   commits \ {CHOOSE c \in commits : \A d \in commits : c.id <= d.id}, newRef)

lookUnlockCommits(s, newRef) == UnlockAll(s, DOMAIN s.incompleteCommits, newRef)

handleProposal(s, message) ==
    IF isValidProposal(s, message)
    THEN lookUnlockCommits([Client_handleProposalOrMessage(s, message) EXCEPT !.receivedProposals = @ \cup {message.id}],
                           message.id)
    ELSE IF isValidApplicationMessage(s, message) THEN Client_handleProposalOrMessage(s, message)
    ELSE s

\* m_cascadeConsensus.receiveMessage(...) as the engine calls it; s.handed is
\* the history of these calls.  Before the first newEpoch the cascade holds a
\* null state pointer: the call is undefined (s.ub) and leaves no trace here.
HandToCascade(s, message) ==
    IF ~s.cascState
    THEN [s EXCEPT !.handed = Append(@, [msgEpoch |-> message.epoch, epoch |-> s.epoch, initialised |-> FALSE]),
                   !.ub = TRUE]
    ELSE Call([s EXCEPT !.handed = Append(@, [msgEpoch |-> message.epoch, epoch |-> s.epoch, initialised |-> TRUE])],
              "Cascade_receiveMessage", <<message.body>>)

handleCascadeConsensusMessage(s, message) ==
    IF isValidApplicationMessage(s, message) /\ message.type = "cc" THEN HandToCascade(s, message) ELSE s

\* An engine that hands every cascade message of a member with a group on.
handleCascadeConsensusReception_ungated(s, message) ==
    IF ~s.hasState THEN [s EXCEPT !.futureCascadeConsensus = Append(@, message)]
    ELSE handleCascadeConsensusMessage(s, message)

handleCascadeConsensusReception(s, message) ==
    IF ~s.hasState THEN [s EXCEPT !.futureCascadeConsensus = Append(@, message)]
    ELSE IF message.epoch < s.epoch THEN s
    ELSE IF message.epoch > s.epoch THEN [s EXCEPT !.futureCascadeConsensus = Append(@, message)]
    ELSE handleCascadeConsensusMessage(s, message)

handleGossipDelivery(s, message) ==
    IF ~s.hasState THEN [s EXCEPT !.futureProposals = Append(@, message)]
    ELSE IF message.epoch < s.epoch THEN s
    ELSE IF message.epoch > s.epoch THEN [s EXCEPT !.futureProposals = Append(@, message)]
    ELSE handleProposal(s, message)

\* m_deliver of GossipBcast, bound to handleGossipDelivery.  s.gossipDelivered
\* is the history of the calls; s.gossipEra counts the calls of newEpoch.
Gossip_deliver(s, msg) ==
    handleGossipDelivery([s EXCEPT !.gossipDelivered = Append(@, [era |-> s.gossipEra, msg |-> msg])], msg)

\* A broadcaster that delivers without recording the message in R.
dispatchMessage_unrecorded(s, msg) ==
    Gossip_deliver(Network_broadcastSample(s, Range(s.computedSample), DDSGossip(msg)), msg)

dispatchMessage(s, msg) ==
    Gossip_deliver(
        Network_broadcastSample([s EXCEPT !.received = @ \cup {msg}], Range(s.computedSample), DDSGossip(msg)), msg)

\* for(msg : m_received) m_network.send(strId, msg.second);
RECURSIVE SendAll(_, _, _)
SendAll(s, id, msgs) ==
    IF msgs = {} THEN s
    ELSE LET m == CHOOSE x \in msgs : TRUE IN SendAll(Network_send(s, id, DDSGossip(m)), id, msgs \ {m})

\* A broadcaster that takes every SUBSCRIBE for a new subscription.
Gossip_receiveMessage_resubscribed(s, msg) ==
    IF "bcastMessage" \in DOMAIN msg
    THEN IF msg.bcastMessage \notin s.received THEN dispatchMessage(s, msg.bcastMessage) ELSE s
    ELSE SendAll([s EXCEPT !.idsSample = @ \cup {msg.subscriberId}, !.computedSample = Append(@, msg.subscriberId)],
                 msg.subscriberId, s.received)

\* A broadcaster that dispatches every GOSSIP message it receives.
Gossip_receiveMessage_unchecked(s, msg) ==
    IF "bcastMessage" \in DOMAIN msg
    THEN dispatchMessage(s, msg.bcastMessage)
    ELSE IF msg.subscriberId \notin s.idsSample
    THEN SendAll([s EXCEPT !.idsSample = @ \cup {msg.subscriberId}, !.computedSample = Append(@, msg.subscriberId)],
                 msg.subscriberId, s.received)
    ELSE s

Gossip_receiveMessage(s, msg) ==
    IF "bcastMessage" \in DOMAIN msg
    THEN IF msg.bcastMessage \notin s.received THEN dispatchMessage(s, msg.bcastMessage) ELSE s
    ELSE IF msg.subscriberId \notin s.idsSample
    THEN SendAll([s EXCEPT !.idsSample = @ \cup {msg.subscriberId}, !.computedSample = Append(@, msg.subscriberId)],
                 msg.subscriberId, s.received)
    ELSE s

Erase(q, j) == SubSeq(q, 1, j - 1) \o SubSeq(q, j + 1, Len(q))

\* One loop of advanceEpoch over a vector of buffered messages: position j of
\* the live vector, an element of the current epoch being handled and erased,
\* an older one erased, a newer one skipped.
RECURSIVE DrainProposals(_, _)
DrainProposals(s, j) ==
    IF j > Len(s.futureProposals) \/ s.crashed THEN s
    ELSE IF s.futureProposals[j].epoch = s.epoch
    THEN DrainProposals([Call(s, "handleProposal", <<s.futureProposals[j]>>) EXCEPT !.futureProposals = Erase(@, j)], j)
    ELSE IF s.futureProposals[j].epoch < s.epoch THEN DrainProposals([s EXCEPT !.futureProposals = Erase(@, j)], j)
    ELSE DrainProposals(s, j + 1)

RECURSIVE DrainCascade(_, _)
DrainCascade(s, j) ==
    IF j > Len(s.futureCascadeConsensus) \/ s.crashed THEN s
    ELSE IF s.futureCascadeConsensus[j].epoch = s.epoch
    THEN DrainCascade([Call(s, "handleCascadeConsensusMessage", <<s.futureCascadeConsensus[j]>>)
                          EXCEPT !.futureCascadeConsensus = Erase(@, j)], j)
    ELSE IF s.futureCascadeConsensus[j].epoch < s.epoch
    THEN DrainCascade([s EXCEPT !.futureCascadeConsensus = Erase(@, j)], j)
    ELSE DrainCascade(s, j + 1)

advanceEpoch(s) ==
    DrainCascade(DrainProposals([s EXCEPT !.receivedProposals = {}, !.incompleteCommits = EmptyMap,
                                          !.proposedCommit = NoVal, !.associatedWelcome = NoVal], 1), 1)

\* An engine that sends a Welcome to everyone whenever its own commit is delivered.
handleConsensusDelivery_welcome_everyone(s, message) ==
    IF s.proposedCommit # NoVal /\ Ref(message) = Ref(s.proposedCommit)
    THEN Network_broadcast(s, Welcome(s.epoch, s.members, message.added))
    ELSE s

handleConsensusDelivery_welcome(s, message) ==
    IF s.proposedCommit # NoVal /\ Ref(message) = Ref(s.proposedCommit) /\ message.added # {}
    THEN sendWelcome(s, message.added, s.associatedWelcome)
    ELSE s

handleConsensusDelivery_newEpoch(s, removed) ==
    Call(Call(Gossip_newEpoch(s, removed), "Cascade_newEpoch", <<>>), "advanceEpoch", <<>>)

handleConsensusDelivery(s, message) ==
    IF ~isValidCommit(s, message) THEN [s EXCEPT !.crashed = TRUE]
    ELSE handleConsensusDelivery_newEpoch(
             handleConsensusDelivery_welcome(
                 [Client_handleCommit(s, message) EXCEPT
                     !.deliveredCommits = Append(@, [epoch |-> s.epoch, commit |-> message,
                                                     proposed |-> s.proposedCommit])],
                 message),
             message.removed)

DDS_init(s) == Call(Gossip_init(Call(s, "advanceEpoch", <<>>)), "Cascade_newEpoch", <<>>)

\* s.commitCalls is the history of the calls: the epoch the member was in;
\* s.passed is the history of the commits passed on to the cascade.
DDS_proposeCommit(s, msg, welcome) ==
    IF ~s.hasState THEN [s EXCEPT !.commitCalls = Append(@, s.epoch)]
    ELSE Cascade_proposeCommit([s EXCEPT !.proposedCommit = msg, !.associatedWelcome = welcome,
                                         !.commitCalls = Append(@, s.epoch),
                                         !.passed = Append(@, [epoch |-> s.epoch, commit |-> msg])], msg)

broadcastProposalOrMessage(s, msg) == IF ~s.hasState THEN s ELSE dispatchMessage(s, msg)

(***************************************************************************)
(* MLSClient: commands, timers, and the process as a whole                 *)
(***************************************************************************)
FirstEpoch == 1       \* the epoch of a group once its creator has committed the first adds

MemberInit(p) ==
    [id |-> p, hasState |-> FALSE, epoch |-> 0, members |-> {}, conn |-> {}, crashed |-> FALSE, ub |-> FALSE,
     out |-> <<>>, timers |-> {}, timeoutCounter |-> 0, updatesMade |-> 0,
     \* MLSClient
     pending |-> {}, clientProposedCommit |-> NoVal, commitTimeout |-> NoVal, shown |-> <<>>,
     \* DistributedDeliveryService
     proposedCommit |-> NoVal, associatedWelcome |-> NoVal, futureProposals |-> <<>>,
     futureCascadeConsensus |-> <<>>, receivedProposals |-> {}, incompleteCommits |-> EmptyMap,
     \* GossipBcast
     received |-> {}, idsSample |-> {}, computedSample |-> <<>>,
     \* CascadeConsensus
     cascState |-> FALSE, cac |-> [i \in {1, 2} |-> CACInit], delivered |-> <<>>, RCTimeout |-> NoVal,
     consensusProposed |-> FALSE, rc |-> RCInit, fc |-> FCInit,
     \* histories
     emitted |-> <<>>, handed |-> <<>>, deliveredCommits |-> <<>>, cacDelivered |-> <<>>, joinEpoch |-> 0,
     gossipEra |-> 0, gossipDelivered |-> <<>>, commitCalls |-> <<>>, lot |-> <<>>,
     fired |-> <<>>, unregistered |-> {},
     cacRun |-> [i \in {1, 2} |-> [pushed |-> <<>>, processed |-> <<>>, depth |-> 0]],
     cacEra |-> [i \in {1, 2} |-> 0], cacCalls |-> <<>>, rcLog |-> <<>>, fcSeen |-> {}, fcLog |-> <<>>, validated |-> <<>>,
     choiceLog |-> <<>>, passed |-> <<>>]

\* MLSClient::handleWelcome then DistributedDeliveryService::init
handleWelcome(s, welcome) ==
    [s EXCEPT !.hasState = TRUE, !.epoch = welcome.epoch, !.members = welcome.members,
              !.conn = @ \cup welcome.members, !.joinEpoch = welcome.epoch]

\* receiveNetworkMessage without the test of the group state before a Welcome
receiveNetworkMessage_rejoin(s, message) ==
    IF message.type = "welcome"
    THEN IF s.id \notin message.added THEN s
         ELSE DDS_init(handleWelcome(s, message))
    ELSE IF message.type = "gossip" THEN Gossip_receiveMessage(s, message.content)
    ELSE IF message.type = "ccm" THEN handleCascadeConsensusReception(s, message.content)
    ELSE s

receiveNetworkMessage(s, message) ==
    IF message.type = "welcome"
    THEN IF s.hasState THEN s
         ELSE IF s.id \notin message.added THEN s          \* the State constructor throws: caught
         ELSE DDS_init(handleWelcome(s, message))
    ELSE IF message.type = "gossip" THEN Gossip_receiveMessage(s, message.content)
    ELSE IF message.type = "ccm" THEN handleCascadeConsensusReception(s, message.content)
    ELSE s

\* ExtendedMLSState::removeSelfUpdate on the copy of the state that commits
removeSelfUpdate(s) == {pr \in s.pending : ~(pr.add = {} /\ pr.sender = s.id)}

ClientCommitOf(s, proposals) ==
    Commit(CommitId(s.epoch, s.id, {pr.id : pr \in proposals}), s.epoch, s.id, {pr.id : pr \in proposals},
           UNION {pr.add : pr \in proposals})

Client_commit(s) ==
    DDS_proposeCommit([s EXCEPT !.clientProposedCommit = ClientCommitOf(s, removeSelfUpdate(s))],
                      ClientCommitOf(s, removeSelfUpdate(s)),
                      Welcome(s.epoch + 1, s.members \cup UNION {pr.add : pr \in removeSelfUpdate(s)},
                              UNION {pr.add : pr \in removeSelfUpdate(s)}))

\* MLSClient::update: an Update proposal carries a fresh leaf node, so no two
\* of them are the same message; s.updatesMade numbers the leaf nodes.
UpdateProposal(s) ==
    [type |-> "proposal", id |-> 2 ^ (s.id - 1), epoch |-> s.epoch, sender |-> s.id, add |-> {}, leaf |-> s.updatesMade]

Client_update(s) == broadcastProposalOrMessage([s EXCEPT !.updatesMade = @ + 1], UpdateProposal(s))

\* Network::runSelect firing one registered timeout: the callback, then unregisterTimeout
fireCallback(s, cb) ==
    IF cb = "commit" THEN Client_commit([s EXCEPT !.commitTimeout = NoVal])
    ELSE IF cb = "rcBottom" THEN RC_bottom([s EXCEPT !.rc.timeout = NoVal])
    ELSE IF cb = "rcTimeout" THEN handleRCBottom([s EXCEPT !.RCTimeout = NoVal])
    ELSE IF cb = "fcPropose" THEN handleProposeTimeout([s EXCEPT !.fc.timeout = NoVal])
    ELSE handleForwardTimeout([s EXCEPT !.fc.forwardTimeout = NoVal])

\* (s.fired remembers the ids whose callback was invoked, and whether
\* unregisterTimeout had returned for the id before)
Invoked(s, tm) == [s EXCEPT !.fired = Append(@, [id |-> tm.id, unregistered |-> tm.id \in s.unregistered])]

fireTimeout_kept(s, tm) == fireCallback(Invoked(s, tm), tm.cb)

fireTimeout(s, tm) == unregisterTimeout(fireCallback(Invoked(s, tm), tm.cb), tm.id)

(***************************************************************************)
(* The callbacks as bound in the constructors of CascadeConsensus and      *)
(* DistributedDeliveryService, and the entry points of the components.     *)
(* A process that has crashed runs nothing.                                *)
(***************************************************************************)
Call(s, op, a) ==
    IF s.crashed THEN s
    ELSE CASE op = "transmitCallback" -> transmitCallback(s, a[1], a[2])
           [] op = "cacDeliverCallback" -> cacDeliverCallback(s, a[1], a[2], a[3], a[4])
           [] op = "cacBroadcastCallback" -> cacBroadcastCallback(s, a[1], a[2])
           [] op = "handleRCBottom" -> handleRCBottom(s)
           [] op = "handleRCDeliver" -> handleRCDeliver(s, a[1], a[2], a[3])
           [] op = "RC_propose" -> RC_propose(s, a[1], a[2])
           [] op = "RC_receiveMessage" -> RC_receiveMessage(s, a[1])
           [] op = "FC_propose" -> FC_propose(s, a[1])
           [] op = "FC_newEpoch" -> FC_newEpoch(s)
           [] op = "FC_receiveMessage" -> FC_receiveMessage(s, a[1])
           [] op = "newView" -> newView(s, a[1])
           [] op = "handleFullConsensusDelivery" -> handleFullConsensusDelivery(s, a[1])
           [] op = "handleConsensusDelivery" -> handleConsensusDelivery(s, a[1])
           [] op = "handleCompleteCommit" -> handleCompleteCommit(s, a[1])
           [] op = "handleProposal" -> handleProposal(s, a[1])
           [] op = "handleCascadeConsensusMessage" -> handleCascadeConsensusMessage(s, a[1])
           [] op = "Cascade_receiveMessage" -> Cascade_receiveMessage(s, a[1])
           [] op = "Cascade_newEpoch" -> Cascade_newEpoch(s)
           [] op = "advanceEpoch" -> advanceEpoch(s)
           [] op = "receiveNetworkMessage" -> receiveNetworkMessage(s, a[1])
           [] op = "fireTimeout" -> fireTimeout(s, a[1])
           [] op = "Client_update" -> Client_update(s)

(***************************************************************************)
(* Transitions: one handler run by one process, its writes put on the links *)
(***************************************************************************)
Procs == DOMAIN mem

RECURSIVE Flush(_, _, _)
Flush(links, p, out) ==
    IF out = <<>> THEN links
    ELSE LET w == Head(out)
         IN Flush([l \in DOMAIN links |-> IF l[1] = p /\ l[2] \in w.to THEN Append(links[l], w.msg) ELSE links[l]],
                  p, Tail(out))

\* The process after a handler: r is what the handler returned from state s.
\* A handler that ran into undefined behaviour either went on as written or
\* took the process down; a crashed process keeps nothing but its writes.
\* The history of its CAC deliveries stays: where the handler stopped at a
\* known point, the calls made before that point were made.
Crashed(s, r) == [s EXCEPT !.crashed = TRUE, !.cacDelivered = IF r.ub THEN @ ELSE r.cacDelivered,
                             !.gossipDelivered = IF r.ub THEN @ ELSE r.gossipDelivered,
                             !.cacCalls = IF r.ub THEN @ ELSE r.cacCalls,
                             !.rcLog = IF r.ub THEN @ ELSE r.rcLog,
                             !.fcSeen = IF r.ub THEN @ ELSE r.fcSeen,
                             !.fcLog = IF r.ub THEN @ ELSE r.fcLog,
                             !.validated = IF r.ub THEN @ ELSE r.validated,
                             !.choiceLog = IF r.ub THEN @ ELSE r.choiceLog]

Ran(p, s, r, links) ==
    \/ /\ ~r.crashed
       /\ mem' = [mem EXCEPT ![p] = [r EXCEPT !.out = <<>>, !.ub = FALSE]]
       /\ net' = Flush(links, p, r.out)
    \/ /\ r.crashed \/ r.ub
       /\ mem' = [mem EXCEPT ![p] = Crashed(s, r)]
       /\ net' = Flush(links, p, r.out)

\* hist.limit bounds the length of the behaviours (0: no bound), hist.steps counts
Within == hist.limit = 0 \/ hist.steps < hist.limit
Tick(h) == IF h.limit = 0 THEN h ELSE [h EXCEPT !.steps = @ + 1]

NoMsg == [type |-> "none"]
Step(kind, p, msg) == [kind |-> kind, p |-> p, msg |-> msg]

\* p reads the next message of the TCP stream from q
Receive(p, q) ==
    /\ Within
    /\ ~mem[p].crashed
    /\ net[<<q, p>>] # <<>>
    /\ LET m == Head(net[<<q, p>>])
       IN /\ Ran(p, mem[p], Call(mem[p], "receiveNetworkMessage", <<m>>), [net EXCEPT ![<<q, p>>] = Tail(@)])
          /\ hist' = Tick([hist EXCEPT !.last = Step("receive", p, m)])

\* one of p's registered timeouts expires
Timeout(p) ==
    /\ Within
    /\ ~mem[p].crashed
    /\ \E tm \in mem[p].timers :
          /\ Ran(p, mem[p], Call(mem[p], "fireTimeout", <<tm>>), net)
          /\ hist' = Tick([hist EXCEPT !.last = Step("timeout", p, [type |-> tm.cb])])

\* the user of p types "update"
Update(p) ==
    /\ Within
    /\ ~mem[p].crashed
    /\ mem[p].hasState
    /\ mem[p].epoch <= MaxEpoch
    /\ hist.updates < MaxUpdates
    /\ Ran(p, mem[p], Call(mem[p], "Client_update", <<>>), net)
    /\ hist' = Tick([hist EXCEPT !.updates = @ + 1, !.last = Step("update", p, NoMsg)])

(***************************************************************************)
(* SpecEnv: one process (member 1) and what the network can bring it.      *)
(* The other member of its group, 2, is the environment: it sends any of   *)
(* EnvMessages at any time, in any order, duplicated or not.               *)
(***************************************************************************)
Me == 1
Other == 2

EnvCommit(e, props) == Commit(CommitId(e, Other, props), e, Other, props, {})
EnvSig(e, seq, kind, m) == [sender |-> Other, epoch |-> e, body |-> [sequence |-> seq, witnessOrReady |-> kind, ref |-> Ref(m)]]
EnvCC(e, cc) == [type |-> "ccm", content |-> [type |-> "cc", epoch |-> e, sender |-> Other, body |-> cc]]
EnvProposal(e) == Proposal(2 ^ (Other - 1), e, Other, {})

EnvMessages ==
    {Welcome(FirstEpoch, {Me, Other}, {Me})}
    \cup {DDSGossip(EnvProposal(e)) : e \in FirstEpoch..MaxEpoch}
    \cup {EnvCC(e, CascadeConsensusMessage(1, "cac",
                       CACMessage(WITNESS_CODE, <<EnvSig(e, 0, WITNESS_CODE, EnvCommit(e, props))>>, EnvCommit(e, props)))) :
             e \in FirstEpoch..MaxEpoch, props \in {{}, {2 ^ (Other - 1)}}}
    \cup {EnvCC(e, CascadeConsensusMessage(1, "cac",
                       CACMessage(READY_CODE, <<EnvSig(e, seq, READY_CODE, EnvCommit(e, {}))>>, NoVal))) :
             e \in FirstEpoch..MaxEpoch, seq \in {1, 2}}
    \cup {EnvCC(e, CascadeConsensusMessage(1, "cac",
                       CACMessage(READY_CODE, <<EnvSig(e, 2, READY_CODE, EnvCommit(e, {})),
                                                EnvSig(e, 1, READY_CODE, EnvCommit(e, {})),
                                                EnvSig(e, 2, READY_CODE, EnvCommit(e, {}))>>, NoVal))) :
             e \in FirstEpoch..MaxEpoch}

EnvDeliver ==
    /\ ~mem[Me].crashed
    /\ hist.inputs < MaxInputs
    /\ \E m \in EnvMessages :
          /\ Ran(Me, mem[Me], Call(mem[Me], "receiveNetworkMessage", <<m>>), net)
          /\ hist' = [hist EXCEPT !.inputs = @ + 1, !.last = Step("receive", Me, m)]

InitEnv ==
    /\ mem = [p \in {Me} |-> MemberInit(p)]
    /\ net = [l \in {<<Me, Me>>, <<Me, Other>>} |-> <<>>]
    /\ hist = [inputs |-> 0, updates |-> 0, steps |-> 0, limit |-> 0, last |-> Step("init", Me, NoMsg)]

NextEnv ==
    \/ EnvDeliver
    \/ Receive(Me, Me)
    \/ Timeout(Me)
    \/ Update(Me)

SpecEnv == InitEnv /\ [][NextEnv]_vars


(***************************************************************************)
(* Worlds: the processes of a group and the TCP links between them, as one *)
(* handler after another changes them.  A link keeps the order of what it  *)
(* carries.  These build the states the specifications below start from.   *)
(***************************************************************************)
Founder == 1

\* MLSClient::create
Client_create(s) == DDS_init([s EXCEPT !.hasState = TRUE, !.members = {s.id}])

\* MLSClient::add of a comma-separated list of identities
RECURSIVE Client_add(_, _)
Client_add(s, ids) ==
    IF ids = {} THEN s
    ELSE LET id == CHOOSE x \in ids : \A y \in ids : x <= y
         IN Client_add(broadcastProposalOrMessage(s, Proposal(2 ^ (id + 2), s.epoch, s.id, {id})), ids \ {id})

\* process p ran a handler that returned r
Handled(w, p, r) == [mem |-> [w.mem EXCEPT ![p] = [r EXCEPT !.out = <<>>, !.ub = FALSE]],
                     net |-> Flush(w.net, p, r.out)]

\* p reads the next message of the stream from q
Read(w, p, q) == Handled([w EXCEPT !.net[<<q, p>>] = Tail(@)], p,
                         Call(w.mem[p], "receiveNetworkMessage", <<Head(w.net[<<q, p>>])>>))

\* p's timeout of callback cb expires
Fire(w, p, cb) == Handled(w, p, Call(w.mem[p], "fireTimeout", <<CHOOSE tm \in w.mem[p].timers : tm.cb = cb>>))

\* The links of L are read, the first non-empty one in a fixed order each time, until all are empty.
LinkBefore(l, k) == l[2] < k[2] \/ (l[2] = k[2] /\ l[1] <= k[1])
FirstOf(n, L) == CHOOSE l \in L : n[l] # <<>> /\ \A k \in L : n[k] # <<>> => LinkBefore(l, k)

RECURSIVE Drain(_, _)
Drain(w, L) ==
    IF \A l \in L : w.net[l] = <<>> THEN w
    ELSE Drain(Read(w, FirstOf(w.net, L)[2], FirstOf(w.net, L)[1]), L)

\* The founder has created the group of G and typed "add" with the others'
\* names (Founding); then its commit timer has expired: the Welcome messages
\* are on their way (Founded).
Founding(G) ==
    Handled([mem |-> [p \in G |-> MemberInit(p)], net |-> [l \in G \X G |-> <<>>]], Founder,
            Client_add(Client_create(MemberInit(Founder)), G \ {Founder}))

Founded(G) == Fire(Founding(G), Founder, "commit")

(***************************************************************************)
(* SpecNet: a group of NetSize processes, all running the program.  The    *)
(* behaviours start when the founder has committed the adds.  From there   *)
(* any process reads from any link, any registered timeout expires, and    *)
(* any user types "update".                                                *)
(***************************************************************************)
NetSize == 2
Group == 1..NetSize

InitNet ==
    /\ mem = Founded(Group).mem
    /\ net = Founded(Group).net
    /\ hist = [inputs |-> 0, updates |-> 0, steps |-> 0, limit |-> 0, last |-> Step("init", Founder, NoMsg)]

NextNet ==
    \E p \in Group :
        \/ \E q \in Group : Receive(p, q)
        \/ Timeout(p)
        \/ Update(p)

SpecNet == InitNet /\ [][NextNet]_vars

(***************************************************************************)
(* SpecFound: the group of SpecNet from the moment its founder has typed   *)
(* "add": the commit that adds the others is still to be made.             *)
(***************************************************************************)
InitFound ==
    /\ mem = Founding(Group).mem
    /\ net = Founding(Group).net
    /\ hist = [inputs |-> 0, updates |-> 0, steps |-> 0, limit |-> 0, last |-> Step("init", Founder, NoMsg)]

SpecFound == InitFound /\ [][NextNet]_vars

(***************************************************************************)
(* SpecPKI: three clients and the PKI.  Each client published one key      *)
(* package when it started; client 1 has created the group.  Its user      *)
(* types "add" with a list of at most two names out of 2, 3 and 4 (nobody  *)
(* runs as 4), at most MaxAdds times; messages are read and timeouts       *)
(* expire as in SpecNet.  mem[PKI] is the PKI: the number of key packages  *)
(* it holds for each identity that published.                              *)
(***************************************************************************)
PKI == 0
MaxAdds == 2
Clients == {1, 2, 3}
AddLists == {<<a>> : a \in 2..4} \cup {<<a, b>> : a, b \in 2..4}

\* process (pki.cpp) on a REQUEST_QUERY for id: the answer, and the PKI afterwards
PKI_success(pki, id) == id \in DOMAIN pki.prekeys /\ id \in pki.addresses /\ pki.prekeys[id] > 0
PKI_process(pki, id) == IF PKI_success(pki, id) THEN [pki EXCEPT !.prekeys[id] = @ - 1] ELSE pki

\* MLSClient::add with its calls of queryPKI: CHECK(resp.success) ends the
\* process (exit) on the first name the PKI cannot serve
RECURSIVE Client_addQueried(_, _, _)
Client_addQueried(s, pki, ids) ==
    IF ids = <<>> THEN [s |-> s, pki |-> pki]
    ELSE IF ~PKI_success(pki, Head(ids)) THEN [s |-> [s EXCEPT !.crashed = TRUE], pki |-> pki]
    ELSE Client_addQueried(broadcastProposalOrMessage(s, Proposal(2 ^ (Head(ids) + 2), s.epoch, s.id, {Head(ids)})),
                           PKI_process(pki, Head(ids)), Tail(ids))

\* every lookup of the list succeeds
RECURSIVE Served(_, _)
Served(pki, ids) == ids = <<>> \/ (PKI_success(pki, Head(ids)) /\ Served(PKI_process(pki, Head(ids)), Tail(ids)))

Added(p, r) ==
    /\ mem' = [mem EXCEPT ![p] = IF r.s.crashed THEN Crashed(mem[p], r.s) ELSE [r.s EXCEPT !.out = <<>>, !.ub = FALSE],
                          ![PKI] = r.pki]
    /\ net' = Flush(net, p, r.s.out)

\* the user of p types "add" and a list of names
Add(p) ==
    /\ ~mem[p].crashed
    /\ mem[p].hasState
    /\ hist.inputs < MaxAdds
    /\ \E ids \in AddLists :
          /\ Added(p, Client_addQueried(mem[p], mem[PKI], ids))
          /\ hist' = [hist EXCEPT !.inputs = @ + 1, !.last = Step("add", p, [type |-> "add", ids |-> ids])]

InitPKI ==
    /\ mem = [p \in Clients \cup {PKI} |->
                 IF p = PKI THEN [prekeys |-> [q \in Clients |-> 1], addresses |-> Clients]
                 ELSE IF p = Founder THEN [Client_create(MemberInit(p)) EXCEPT !.out = <<>>]
                 ELSE MemberInit(p)]
    /\ net = [l \in Clients \X Clients |-> <<>>]
    /\ hist = [inputs |-> 0, updates |-> 0, steps |-> 0, limit |-> 0, last |-> Step("init", Founder, NoMsg)]

NextPKI ==
    \E p \in Clients :
        \/ Add(p)
        \/ \E q \in Clients : Receive(p, q)
        \/ Timeout(p)

SpecPKI == InitPKI /\ [][NextPKI]_vars

(***************************************************************************)
(* SpecTrio: a group of three in which members 1 and 2 commit at the same  *)
(* time.  All have joined and the founder has typed "update"; its proposal *)
(* has reached everyone, and the commit timers of 1 and 2 expire before    *)
(* either has heard of the other's commit.  The behaviours start there and *)
(* are followed for MaxSteps steps.                                        *)
(***************************************************************************)
Trio == {1, 2, 3}
MaxSteps == 8

Joined == Drain(Founded(Trio), Trio \X Trio)
Proposed == Drain(Handled(Joined, Founder, Call(Joined.mem[Founder], "Client_update", <<>>)), Trio \X Trio)
Conflicted == Fire(Fire(Proposed, 1, "commit"), 2, "commit")

InitTrio ==
    /\ mem = Conflicted.mem
    /\ net = Conflicted.net
    /\ hist = [inputs |-> 0, updates |-> 1, steps |-> 0, limit |-> MaxSteps, last |-> Step("init", Founder, NoMsg)]

NextTrio ==
    \E p \in Trio :
        \/ \E q \in Trio : Receive(p, q)
        \/ Timeout(p)

SpecTrio == InitTrio /\ [][NextTrio]_vars

(***************************************************************************)
(* SpecLag: the same group a little later.  Member 1 is slow to read what  *)
(* member 2 sends: every link but the one from 2 to 1 has been read empty. *)
(* Members 2 and 3 have CAC-delivered both commits; member 1 has signed    *)
(* for both and holds the payload of its own only.                         *)
(***************************************************************************)
Lagging == Drain(Conflicted, (Trio \X Trio) \ {<<2, 1>>})

InitLag ==
    /\ mem = Lagging.mem
    /\ net = Lagging.net
    /\ hist = [inputs |-> 0, updates |-> 1, steps |-> 0, limit |-> MaxSteps, last |-> Step("init", Founder, NoMsg)]

SpecLag == InitLag /\ [][NextTrio]_vars

(***************************************************************************)
(* SpecFC: the same group later still, in Full Consensus.  Member 3's      *)
(* cascade timeout and member 2's Restrained Consensus timeout have        *)
(* expired, so the second CAC instance carried two contents and every      *)
(* member proposed to Full Consensus.  Member 2, the leader of view 0, has *)
(* sent its PRE_PREPARE and has read nothing since; members 1 and 3 have   *)
(* read everything and have decided.                                       *)
(***************************************************************************)
ToLeader == {<<1, 2>>, <<2, 2>>, <<3, 2>>}
FromLeader == (Trio \X Trio) \ {<<1, 2>>, <<3, 2>>}

Bottomed == Fire(Fire(Lagging, 3, "rcTimeout"), 2, "rcBottom")
Deciding == Drain(Drain(Drain(Bottomed, FromLeader), ToLeader), FromLeader)

InitFC ==
    /\ mem = Deciding.mem
    /\ net = Deciding.net
    /\ hist = [inputs |-> 0, updates |-> 1, steps |-> 0, limit |-> MaxSteps, last |-> Step("init", Founder, NoMsg)]

SpecFC == InitFC /\ [][NextTrio]_vars

(***************************************************************************)
(* SpecPropose: the group of SpecFC a little earlier.  Every member's      *)
(* second CAC instance has delivered with a conflict and every member has  *)
(* proposed to Full Consensus.  Member 2, the leader of view 0, has sent   *)
(* its PRE_PREPARE, which nobody has read yet; the PROPOSE of members 1    *)
(* and 3 are on their way to it.  The behaviours are followed for          *)
(* ProposeSteps steps.                                                     *)
(***************************************************************************)
ProposeSteps == 5

Proposing == Read(Read(Read(Read(Drain(Drain(Bottomed, FromLeader), ToLeader), 1, 2), 1, 2), 3, 2), 3, 2)

InitPropose ==
    /\ mem = Proposing.mem
    /\ net = Proposing.net
    /\ hist = [inputs |-> 0, updates |-> 1, steps |-> 0, limit |-> ProposeSteps, last |-> Step("init", Founder, NoMsg)]

SpecPropose == InitPropose /\ [][NextTrio]_vars

(***************************************************************************)
(* SpecRC: the group of SpecLag with member 3 not to be trusted.  Besides  *)
(* what it sends as the program does, member 3 sends Restrained Consensus  *)
(* messages of its own making to the others, at most MaxForged of them:    *)
(* its signature on the subset of both commits; its signature on a subset  *)
(* together with the signature member 2 made on another (copied from       *)
(* member 2's message); and a message with a proof of another epoch.       *)
(***************************************************************************)
MaxForged == 1
RCSteps == 6

\* The two commits of the conflict: member 1's, without its own update, and
\* member 2's, with member 1's update (proposal 1)
Both == {<<1, [m |-> CommitId(FirstEpoch, 1, {})]>>, <<2, [m |-> CommitId(FirstEpoch, 2, {1})]>>}
SignedBy3(set) == [sender |-> 3, epoch |-> FirstEpoch, body |-> [set |-> set]]
SignedBy2(set) == [sender |-> 2, epoch |-> FirstEpoch, body |-> [set |-> set]]
StaleProof == [sender |-> 3, epoch |-> 0, body |-> [sequence |-> 0, witnessOrReady |-> WITNESS_CODE, ref |-> [m |-> 0]]]
ForgedRC(sigSet, proofs) ==
    [type |-> "ccm",
     content |-> [type |-> "cc", epoch |-> FirstEpoch, sender |-> 3,
                  body |-> CascadeConsensusMessage(1, "rc",
                               [restrainedCons |-> [sigSet |-> sigSet, powerConflictSet |-> SUBSET Both,
                                                    proofs |-> proofs]])]]
Forged ==
    {ForgedRC(<<SignedBy3(Both)>>, {}),
     ForgedRC(<<SignedBy3({<<2, [m |-> CommitId(FirstEpoch, 2, {1})]>>}), SignedBy2(Both)>>, {}),
     ForgedRC(<<SignedBy3(Both)>>, {StaleProof})}

\* p reads a message member 3 made up
Intrude(p) ==
    /\ Within
    /\ ~mem[p].crashed
    /\ hist.inputs < MaxForged
    /\ \E m \in Forged :
          /\ Ran(p, mem[p], Call(mem[p], "receiveNetworkMessage", <<m>>), net)
          /\ hist' = Tick([hist EXCEPT !.inputs = @ + 1, !.last = Step("receive", p, m)])

InitRC ==
    /\ mem = Lagging.mem
    /\ net = Lagging.net
    /\ hist = [inputs |-> 0, updates |-> 1, steps |-> 0, limit |-> RCSteps, last |-> Step("init", Founder, NoMsg)]

NextRC ==
    \E p \in Trio :
        \/ \E q \in Trio : Receive(p, q)
        \/ Timeout(p)
        \/ p # 3 /\ Intrude(p)

SpecRC == InitRC /\ [][NextRC]_vars

(***************************************************************************)
(* SpecQuad: member 1 of a group of four, in Full Consensus.  With four    *)
(* members f is 1 and a quorum is three.  Member 1 has joined and holds a  *)
(* commit of member 2, received through the first CAC instance.  The other *)
(* three are the environment: they send any of QuadMessages in any order:  *)
(* the PRE_PREPARE of member 2, the leader of view 0, and of member 3, the  *)
(* leader of view 1, for either view; PREPARE and COMMIT signatures for    *)
(* view 0, and one PREPARE for view 1; VIEW_CHANGE signatures for view 1.  *)
(* The behaviours are followed for QuadSteps steps.                        *)
(***************************************************************************)
Quad == 1..4
QuadSteps == 7

QuadContent == CAC2Content(<<[m |-> CommitId(FirstEpoch, Other, {})]>>, {})
QuadSigned(q, body) == [sender |-> q, epoch |-> FirstEpoch, body |-> body]
QuadFC(q, message) ==
    [type |-> "ccm",
     content |-> [type |-> "cc", epoch |-> FirstEpoch, sender |-> q, body |-> CascadeConsensusMessage(0, "fc", message)]]
QuadSignature(t, q, v) ==
    QuadFC(q, [t |-> t, signedContent |-> QuadSigned(q, [view |-> v, consensusMessage |-> Ref(QuadContent)])])

QuadMessages ==
    {QuadFC(q[1], [t |-> "PRE_PREPARE",
                   signedContent |-> QuadSigned(q[1], [view |-> q[2], consensusMessage |-> Ref(QuadContent)]),
                   proposedMessage |-> QuadContent]) : q \in {<<2, 0>>, <<3, 0>>, <<3, 1>>}}
    \cup {QuadSignature("PREPARE", q[1], q[2]) : q \in {<<2, 0>>, <<3, 0>>, <<4, 0>>, <<2, 1>>}}
    \cup {QuadSignature("COMMIT", q, 0) : q \in Quad \ {Me}}
    \cup {QuadFC(q, [t |-> "VIEW_CHANGE", signed |-> QuadSigned(q, [view |-> 1])]) : q \in Quad \ {Me}}

QuadDeliver ==
    /\ Within
    /\ ~mem[Me].crashed
    /\ \E m \in QuadMessages :
          /\ Ran(Me, mem[Me], Call(mem[Me], "receiveNetworkMessage", <<m>>), net)
          /\ hist' = Tick([hist EXCEPT !.inputs = @ + 1, !.last = Step("receive", Me, m)])

QuadJoined ==
    Drain(Handled(Handled([mem |-> [p \in {Me} |-> MemberInit(p)], net |-> [l \in {Me} \X Quad |-> <<>>]], Me,
                    Call(MemberInit(Me), "receiveNetworkMessage", <<Welcome(FirstEpoch, Quad, {Me})>>)),
            Me,
            Call(Call(MemberInit(Me), "receiveNetworkMessage", <<Welcome(FirstEpoch, Quad, {Me})>>),
                 "receiveNetworkMessage",
                 <<EnvCC(FirstEpoch, CascadeConsensusMessage(1, "cac",
                       CACMessage(WITNESS_CODE, <<EnvSig(FirstEpoch, 0, WITNESS_CODE, EnvCommit(FirstEpoch, {}))>>,
                                  EnvCommit(FirstEpoch, {}))))>>)),
          {<<Me, Me>>})

InitQuad ==
    /\ mem = QuadJoined.mem
    /\ net = QuadJoined.net
    /\ hist = [inputs |-> 0, updates |-> 0, steps |-> 0, limit |-> QuadSteps, last |-> Step("init", Me, NoMsg)]

NextQuad ==
    \/ QuadDeliver
    \/ Receive(Me, Me)
    \/ Timeout(Me)

SpecQuad == InitQuad /\ [][NextQuad]_vars

(***************************************************************************)
(* SpecSix: member 1 of a group of six, the smallest in which the CAC      *)
(* instances tolerate a fault (t = 1, qw = 5, qr = 5).  The other five are *)
(* the environment.  In the first epoch they send any of SixMessages, at   *)
(* most SixInputs of them, in any order: the proposal of member 2; the     *)
(* commit of member 2 that references it, with the WITNESS signatures of   *)
(* members 2 to 5; the commit of member 6, with the WITNESS signatures of  *)
(* member 6 on its own commit and then on the commit of member 2; the lone *)
(* WITNESS signature of member 6 on the commit of member 2; and the READY  *)
(* signatures of members 2 to 6 on the commit of member 2.                 *)
(***************************************************************************)
Six == 1..6
SixInputs == 4

SixSig(q, seq, kind, m) ==
    [sender |-> q, epoch |-> FirstEpoch, body |-> [sequence |-> seq, witnessOrReady |-> kind, ref |-> Ref(m)]]
SixCAC(q, kind, sigs, opt) ==
    [type |-> "ccm",
     content |-> [type |-> "cc", epoch |-> FirstEpoch, sender |-> q,
                  body |-> CascadeConsensusMessage(1, "cac", CACMessage(kind, sigs, opt))]]
CommitOf6 == Commit(CommitId(FirstEpoch, 6, {}), FirstEpoch, 6, {}, {})

SixMessages ==
    {DDSGossip(EnvProposal(FirstEpoch)),
     SixCAC(2, WITNESS_CODE, [q \in 1..4 |-> SixSig(q + 1, 0, WITNESS_CODE, EnvCommit(FirstEpoch, {2 ^ (Other - 1)}))],
            EnvCommit(FirstEpoch, {2 ^ (Other - 1)})),
     SixCAC(6, WITNESS_CODE, <<SixSig(6, 0, WITNESS_CODE, CommitOf6),
                               SixSig(6, 1, WITNESS_CODE, EnvCommit(FirstEpoch, {2 ^ (Other - 1)}))>>, CommitOf6),
     SixCAC(6, WITNESS_CODE, <<SixSig(6, 0, WITNESS_CODE, EnvCommit(FirstEpoch, {2 ^ (Other - 1)}))>>, NoVal),
     SixCAC(2, READY_CODE, [q \in 1..5 |-> SixSig(q + 1, 1, READY_CODE, EnvCommit(FirstEpoch, {2 ^ (Other - 1)}))],
            NoVal)}

SixDeliver ==
    /\ ~mem[Me].crashed
    /\ hist.inputs < SixInputs
    /\ \E m \in SixMessages :
          /\ Ran(Me, mem[Me], Call(mem[Me], "receiveNetworkMessage", <<m>>), net)
          /\ hist' = [hist EXCEPT !.inputs = @ + 1, !.last = Step("receive", Me, m)]

InitSix ==
    /\ mem = [p \in {Me} |-> [Call(MemberInit(p), "receiveNetworkMessage", <<Welcome(FirstEpoch, Six, {Me})>>)
                                 EXCEPT !.out = <<>>]]
    /\ net = [l \in {Me} \X Six |-> <<>>]
    /\ hist = [inputs |-> 0, updates |-> 0, steps |-> 0, limit |-> 0, last |-> Step("init", Me, NoMsg)]

NextSix ==
    \/ SixDeliver
    \/ Receive(Me, Me)
    \/ Timeout(Me)

SpecSix == InitSix /\ [][NextSix]_vars

(***************************************************************************)
(* SpecChoice: chooseCommit on its own.  The founder of the group of three,*)
(* in its first epoch, is handed every list of at most MaxChoices commits  *)
(* of the epoch: of any member, with any of the proposals of members 1 and *)
(* 2, once.  hist.last keeps the list and the commit chosen.               *)
(***************************************************************************)
Candidates == {Commit(CommitId(FirstEpoch, p, props), FirstEpoch, p, props, {}) : p \in Trio, props \in SUBSET {1, 2}}

InitChoice ==
    /\ mem = Joined.mem
    /\ net = Joined.net
    /\ hist = [inputs |-> 0, updates |-> 0, steps |-> 0, limit |-> 0, last |-> Step("init", Founder, NoMsg)]

Choose ==
    \E n \in 1..MaxChoices : \E commits \in [1..n -> Candidates] :
        /\ hist.inputs = 0
        /\ UNCHANGED <<mem, net>>
        /\ hist' = [hist EXCEPT !.inputs = 1,
                                !.last = Step("choose", Founder,
                                              [type |-> "choice", commits |-> commits,
                                               chosen |-> chooseCommit(mem[Founder], commits)])]

SpecChoice == InitChoice /\ [][Choose]_vars

(***************************************************************************)
(* SpecCrowd: a group large enough for the gossip samples to be samples:   *)
(* twice MINIMUM_PEERS + 1 members, all added by the founder at once.  The  *)
(* random generators bring up, for each member of the lower half, the      *)
(* lower half first, and for each member of the upper half the upper half  *)
(* first.  The behaviours start when the founder has committed the adds;   *)
(* the links are read in turn, and the founder's user types "update" at    *)
(* some point.                                                             *)
(***************************************************************************)
CrowdSize == 2 * (MINIMUM_PEERS + 1)
Crowd == 1..CrowdSize

Lot(p) == IF p <= MINIMUM_PEERS + 1 THEN [i \in Crowd |-> i] ELSE [i \in Crowd |-> CrowdSize + 1 - i]
Seated(p) == [MemberInit(p) EXCEPT !.lot = Lot(p)]

Gathered ==
    Fire(Handled([mem |-> [p \in Crowd |-> Seated(p)], net |-> [l \in Crowd \X Crowd |-> <<>>]], Founder,
                 Client_add(Client_create(Seated(Founder)), Crowd \ {Founder})),
         Founder, "commit")

InitCrowd ==
    /\ mem = Gathered.mem
    /\ net = Gathered.net
    /\ hist = [inputs |-> 0, updates |-> 0, steps |-> 0, limit |-> 0, last |-> Step("init", Founder, NoMsg)]

\* the first link that carries something is read
ReadInTurn ==
    /\ \E l \in DOMAIN net : net[l] # <<>>
    /\ Receive(FirstOf(net, DOMAIN net)[2], FirstOf(net, DOMAIN net)[1])

NextCrowd ==
    \/ ReadInTurn
    \/ Update(Founder)

SpecCrowd == InitCrowd /\ [][NextCrowd]_vars

(***************************************************************************)
(* Properties checked under SpecEnv                                        *)
(***************************************************************************)
DeliveredEpochsConsecutive(s) ==
    /\ s.epoch = s.joinEpoch + Len(s.deliveredCommits)
    /\ \A j \in DOMAIN s.deliveredCommits :
          /\ s.deliveredCommits[j].epoch = s.joinEpoch + j - 1
          /\ s.deliveredCommits[j].commit.epoch = s.deliveredCommits[j].epoch

\* C2: the epoch of a member never decreases, and every commit the cascade
\* delivers to the engine advances it by exactly one: the epochs at which the
\* member delivered commits are consecutive from the epoch it joined at, none
\* skipped, none with two commits.
C2_EpochAdvancesByOne ==
    /\ [](\A p \in DOMAIN mem : DeliveredEpochsConsecutive(mem[p]))
    /\ [][\A p \in DOMAIN mem : mem'[p].epoch >= mem[p].epoch]_vars

C2_Witness == \E p \in DOMAIN mem : ~mem[p].crashed /\ Len(mem[p].deliveredCommits) >= 2

\* The signatures of instance i emitted in epoch e, in emission order.
EmittedIn(s, i, e) == SelectSeq(s.emitted, LAMBDA x : x.inst = i /\ x.epoch = e)

\* C3: in each CAC instance and epoch the j-th emitted signature (from 0)
\* carries sequence j; the sequences emitted in the current epoch are exactly
\* 0..sigCount-1, the counter having restarted at 0 on newEpoch.
C3_EmittedSequencesArePrefix ==
    \A p \in DOMAIN mem : \A i \in {1, 2} :
        /\ \A e \in 0..mem[p].epoch :
              \A j \in DOMAIN EmittedIn(mem[p], i, e) : EmittedIn(mem[p], i, e)[j].sequence = j - 1
        /\ Len(EmittedIn(mem[p], i, mem[p].epoch)) = mem[p].cac[i].sigCount

C3_Witness ==
    \E p \in DOMAIN mem :
        /\ ~mem[p].crashed
        /\ mem[p].cac[1].sigCount >= 2
        /\ Len(mem[p].deliveredCommits) >= 1
        /\ Len(EmittedIn(mem[p], 1, mem[p].epoch - 1)) >= 2

\* The step just taken was member p reading message m of the given type.
JustReceived(p, type) == hist'.last.kind = "receive" /\ hist'.last.p = p /\ hist'.last.msg.type = type

SignedBy(c, q) == {sig \in c.validSignatures : sig.sender = q}

\* C4: a CAC instance has processed a signature of sequence k of signer q only
\* if it has processed, in the current epoch, signatures of q with every
\* sequence 0..k-1 (a signature that would leave a gap is not counted).
C4_ProcessedInSequence ==
    \A p \in DOMAIN mem : \A i \in {1, 2} :
        \A sig \in mem[p].cac[i].validSignatures :
            \A k \in 0..(sig.body.sequence - 1) :
                \E x \in SignedBy(mem[p].cac[i], sig.sender) : x.body.sequence = k

\* C7: a CASCADE_CONSENSUS message is handed to the cascade only when its
\* epoch is the member's epoch; one of a smaller epoch changes nothing; one of
\* a greater epoch, or arriving at a member without a group, is appended to
\* futureCascadeConsensus and nothing else happens.
C7_CascadeEpochGate ==
    /\ [](\A p \in DOMAIN mem : \A j \in DOMAIN mem[p].handed : mem[p].handed[j].msgEpoch = mem[p].handed[j].epoch)
    /\ [][\A p \in DOMAIN mem :
            JustReceived(p, "ccm") =>
                IF ~mem[p].hasState \/ hist'.last.msg.content.epoch > mem[p].epoch
                THEN /\ mem'[p] = [mem[p] EXCEPT !.futureCascadeConsensus = Append(@, hist'.last.msg.content)]
                     /\ \A l \in DOMAIN net : l[1] = p => Len(net'[l]) <= Len(net[l])
                ELSE IF hist'.last.msg.content.epoch < mem[p].epoch
                THEN /\ mem'[p] = mem[p]
                     /\ \A l \in DOMAIN net : l[1] = p => Len(net'[l]) <= Len(net[l])
                ELSE Len(mem'[p].handed) > Len(mem[p].handed) \/ mem'[p].crashed]_vars

C7_Witness ==
    \E p \in DOMAIN mem :
        /\ ~mem[p].crashed
        /\ \E j \in DOMAIN mem[p].handed : mem[p].handed[j].initialised /\ mem[p].handed[j].epoch > mem[p].joinEpoch
        /\ hist.last.kind = "receive" /\ hist.last.msg.type = "ccm"
        /\ hist.last.msg.content.epoch < mem[p].epoch

GossipOf(msg) == msg.content.bcastMessage

C9_HandedAfterInitialisation ==
    \A p \in DOMAIN mem : \A j \in DOMAIN mem[p].handed :
        mem[p].handed[j].initialised /\ mem[p].handed[j].msgEpoch = mem[p].handed[j].epoch

CACEmpty(c) ==
    /\ c.messages = EmptyMap /\ c.validSignatures = {} /\ c.signaturesCount = EmptyMap /\ c.sequences = EmptyMap
    /\ c.validMessages = {} /\ c.seenMessages = {} /\ c.waitingMessages = {} /\ c.deliveredMessages = {}

RCEmpty(rc) ==
    /\ ~rc.retract /\ ~rc.hasDelivered /\ ~rc.hasFinished
    /\ rc.powerSet = {} /\ rc.signed = EmptyMap /\ rc.retracted = <<>>

FCEmpty(fc) ==
    /\ fc.messages = EmptyMap /\ fc.proposedMessage = NoVal /\ fc.prePreparedMessage = NoVal
    /\ \A v \in DOMAIN fc.futureMessages : fc.futureMessages[v] = <<>>
    /\ fc.signedPrepare = EmptyMap /\ fc.signedCommit = EmptyMap /\ fc.signedNewView = {}
    /\ fc.currentView = 0

PerEpochEmpty(s) ==
    /\ s.receivedProposals = {} /\ s.incompleteCommits = EmptyMap /\ s.delivered = <<>>
    /\ CACEmpty(s.cac[1]) /\ CACEmpty(s.cac[2])
    /\ RCEmpty(s.rc) /\ FCEmpty(s.fc)
    /\ s.received = {}

\* The member holds a buffered message of one of the epochs e..f: an event of
\* these epochs that the engine processes as soon as it enters them.
HoldsEventOf(s, e, f) ==
    \/ \E j \in DOMAIN s.futureProposals : s.futureProposals[j].epoch \in e..f
    \/ \E j \in DOMAIN s.futureCascadeConsensus : s.futureCascadeConsensus[j].epoch \in e..f

\* C10: when the epoch of a member advances, every per-epoch structure is
\* empty before any event of the new epoch is processed: a step that advances
\* the epoch of a member holding no buffered event of the new epoch ends with
\* receivedProposals, incompleteCommits, the CAC1-delivered refs, both CAC
\* instances, Restrained Consensus, Full Consensus and the gossip set R empty.
C10_NewEpochStartsEmpty ==
    [][\A p \in DOMAIN mem :
          (/\ mem[p].hasState /\ ~mem'[p].crashed
           /\ mem'[p].epoch > mem[p].epoch
           /\ ~HoldsEventOf(mem[p], mem[p].epoch + 1, mem'[p].epoch))
          => PerEpochEmpty(mem'[p])]_vars

\* C11: between two calls of newEpoch the gossip broadcaster calls its deliver
\* callback at most once for a message reference, however often the message
\* is received.
C11_GossipDeliversOncePerEpoch ==
    \A p \in Procs : \A i, j \in DOMAIN mem[p].gossipDelivered :
        mem[p].gossipDelivered[i] = mem[p].gossipDelivered[j] => i = j

\* A GOSSIP message was just received again: it was delivered earlier, since the last newEpoch, and not now.
C11_Witness ==
    \E p \in Procs :
        /\ ~mem[p].crashed
        /\ hist.last.kind = "receive" /\ hist.last.p = p /\ hist.last.msg.type = "gossip"
        /\ "bcastMessage" \in DOMAIN hist.last.msg.content
        /\ Len(mem[p].gossipDelivered) >= 2
        /\ mem[p].gossipDelivered[Len(mem[p].gossipDelivered)].msg # hist.last.msg.content.bcastMessage
        /\ \E i \in DOMAIN mem[p].gossipDelivered :
              mem[p].gossipDelivered[i] = [era |-> mem[p].gossipEra, msg |-> hist.last.msg.content.bcastMessage]

\* C13: a member calls proposeCommit at most once per epoch: the epochs of
\* its calls are strictly increasing, whatever proposals arrive and whatever
\* timers expire after a call.
C13_OneProposedCommitPerEpoch ==
    \A p \in Procs : \A i, j \in DOMAIN mem[p].commitCalls :
        i < j => mem[p].commitCalls[i] < mem[p].commitCalls[j]

\* A member that has proposed a commit in its epoch has just received one more
\* proposal of that epoch, one its commit does not cover.
C13_Witness ==
    \E p \in Procs :
        /\ ~mem[p].crashed
        /\ mem[p].clientProposedCommit # NoVal
        /\ mem[p].commitCalls # <<>>
        /\ mem[p].commitCalls[Len(mem[p].commitCalls)] = mem[p].epoch
        /\ hist.last.kind = "receive" /\ hist.last.p = p /\ hist.last.msg.type = "gossip"
        /\ "bcastMessage" \in DOMAIN hist.last.msg.content
        /\ hist.last.msg.content.bcastMessage \in mem[p].pending
        /\ hist.last.msg.content.bcastMessage.id \notin mem[p].clientProposedCommit.props

\* C15: the callback of a timeout is invoked at most once, and never after
\* unregisterTimeout has returned for its id: an id that was unregistered is
\* not registered any more; and unregisterTimeout with an id that is not
\* registered (never given out, unregistered before, or fired) changes
\* nothing of the member's state.
TimeoutIds(s) == {tm.id : tm \in s.timers}

C15_UnregisteredNeverFires ==
    \A p \in Procs :
        /\ \A i, j \in DOMAIN mem[p].fired : mem[p].fired[i].id = mem[p].fired[j].id => i = j
        /\ \A i \in DOMAIN mem[p].fired : ~mem[p].fired[i].unregistered
        /\ TimeoutIds(mem[p]) \cap mem[p].unregistered = {}
        /\ \A id \in (0..mem[p].timeoutCounter) \ TimeoutIds(mem[p]) :
               [unregisterTimeout(mem[p], id) EXCEPT !.unregistered = mem[p].unregistered] = mem[p]

C15_Witness ==
    \E p \in Procs :
        /\ ~mem[p].crashed
        /\ hist.last.kind = "timeout" /\ hist.last.p = p
        /\ mem[p].fired # <<>>
        /\ \E id \in mem[p].unregistered : \A i \in DOMAIN mem[p].fired : mem[p].fired[i].id # id
        /\ \E id \in 0..mem[p].timeoutCounter : id \notin TimeoutIds(mem[p])

ConflictRefs(c) == {ref \in DOMAIN c.signaturesCount : witnessCount(c, ref) >= CAC_K}

C17_ConflictSetOnlyGrows ==
    [][\A p \in Procs : \A i \in {1, 2} :
          (~mem'[p].crashed /\ mem'[p].cacEra[i] = mem[p].cacEra[i])
          => ConflictRefs(mem[p].cac[i]) \subseteq ConflictRefs(mem'[p].cac[i])]_vars

C17_Witness ==
    \E p \in Procs : \E i \in {1, 2} :
        /\ ~mem[p].crashed
        /\ mem[p].cacEra[i] > 0
        /\ hist.last.kind = "receive" /\ hist.last.p = p /\ hist.last.msg.type = "ccm"
        /\ Cardinality(ConflictRefs(mem[p].cac[i])) >= 2
        /\ \E ref \in ConflictRefs(mem[p].cac[i]) : witnessCount(mem[p].cac[i], ref) >= 2

\* C18: a signature that was accepted is not counted again when it is received
\* again, in the same message or in a later one: validSignatures and
\* signaturesCount hold it once and the sequence of its signer has advanced
\* once for it, so the sequence of a signer is the number of its signatures
\* that were accepted.
C18_AcceptedSignatureCountsOnce ==
    \A p \in Procs : \A i \in {1, 2} :
        ~mem[p].crashed =>
            \A q \in DOMAIN mem[p].cac[i].sequences :
                q # p => mem[p].cac[i].sequences[q] = Cardinality(SignedBy(mem[p].cac[i], q))

(***************************************************************************)
(* Properties checked under SpecChoice                                     *)
(***************************************************************************)
Pair(commit) == <<Cardinality(commit.props), commit.sender>>
Shuffles(commits) ==
    {[j \in DOMAIN commits |-> commits[f[j]]] :
        f \in {g \in [DOMAIN commits -> DOMAIN commits] : \A j, k \in DOMAIN commits : g[j] = g[k] => j = k}}

\* C19: chooseCommit on a non-empty list of commits returns a commit of the
\* list with the greatest number of proposals and, among those, the smallest
\* sender; and when no two commits of the list have the same number of
\* proposals and the same sender, it returns the same commit for the list in
\* any order.
C19_MostProposalsThenSmallestSender ==
    hist.last.kind = "choose" =>
        /\ \E j \in DOMAIN hist.last.msg.commits : hist.last.msg.commits[j] = hist.last.msg.chosen
        /\ \A j \in DOMAIN hist.last.msg.commits :
               \/ Pair(hist.last.msg.commits[j])[1] < Pair(hist.last.msg.chosen)[1]
               \/ /\ Pair(hist.last.msg.commits[j])[1] = Pair(hist.last.msg.chosen)[1]
                  /\ Pair(hist.last.msg.chosen)[2] <= Pair(hist.last.msg.commits[j])[2]
        /\ (\A j, k \in DOMAIN hist.last.msg.commits :
                Pair(hist.last.msg.commits[j]) = Pair(hist.last.msg.commits[k]) => j = k)
           => \A shuffled \in Shuffles(hist.last.msg.commits) :
                  chooseCommit(mem[hist.last.p], shuffled) = hist.last.msg.chosen

C19_Witness ==
    /\ hist.last.kind = "choose"
    /\ Len(hist.last.msg.commits) = MaxChoices
    /\ hist.last.msg.chosen = hist.last.msg.commits[MaxChoices]
    /\ \A j, k \in DOMAIN hist.last.msg.commits : Pair(hist.last.msg.commits[j]) = Pair(hist.last.msg.commits[k]) => j = k
    /\ Pair(hist.last.msg.commits[1])[1] = Pair(hist.last.msg.chosen)[1]
    /\ Pair(hist.last.msg.commits[2])[1] < Pair(hist.last.msg.chosen)[1]

(***************************************************************************)
(* Properties checked under SpecCrowd                                      *)
(***************************************************************************)
\* Every message sent has been read, every process is running, and all are in the same epoch.
AllReadInOneEpoch ==
    /\ \A l \in DOMAIN net : net[l] = <<>>
    /\ \A p, q \in Procs : ~mem[p].crashed /\ mem[p].hasState /\ mem[p].epoch = mem[q].epoch

GossipDelivered(p, m) == \E j \in DOMAIN mem[p].gossipDelivered : mem[p].gossipDelivered[j].msg = m

\* C20: a GOSSIP message is written only to identities of the sender's sample
\* set S that are connected outbound: whenever a step of a member appends a
\* GOSSIP message to one of its streams, the member at the other end is in the
\* member's m_idsSample and among its outbound clients.
C20_GossipGoesToTheSampleOnly ==
    [][\A l \in DOMAIN net : \A j \in DOMAIN net'[l] :
          (j > Len(net[l]) /\ net'[l][j].type = "gossip" /\ ~mem'[l[1]].crashed)
          => l[2] \in mem'[l[1]].idsSample \cap mem'[l[1]].conn]_vars

C20_Witness ==
    \E p \in Procs :
        /\ ~mem[p].crashed
        /\ hist.last.kind = "update" /\ hist.last.p = p
        /\ mem[p].conn \ mem[p].idsSample # {}
        /\ Cardinality(mem[p].idsSample) = MINIMUM_PEERS
        /\ \A q \in mem[p].idsSample :
               \E j \in DOMAIN net[<<p, q>>] :
                   /\ net[<<p, q>>][j].type = "gossip"
                   /\ "bcastMessage" \in DOMAIN net[<<p, q>>][j].content
                   /\ net[<<p, q>>][j].content.bcastMessage.sender = p

\* C21: a SUBSCRIBE of an identity that is already in the sample set S changes
\* nothing: not S, not the list of recipients m_computedSample, nor anything
\* else of the member, and nothing is written to the network.
C21_SubscribeTwiceIsNoOp ==
    [][\A p \in Procs :
          (/\ JustReceived(p, "gossip") /\ "subscriberId" \in DOMAIN hist'.last.msg.content
           /\ hist'.last.msg.content.subscriberId \in mem[p].idsSample)
          => /\ mem'[p] = mem[p]
             /\ \A l \in DOMAIN net : Len(net'[l]) <= Len(net[l])]_vars

C21_Witness ==
    \E p \in Procs :
        /\ ~mem[p].crashed
        /\ hist.last.kind = "receive" /\ hist.last.p = p /\ hist.last.msg.type = "gossip"
        /\ "subscriberId" \in DOMAIN hist.last.msg.content
        /\ hist.last.msg.content.subscriberId \in Range(mem[p].computedSample)
        /\ mem[p].received # {}

\* C22: a Welcome read by a member that already has a group state is ignored:
\* the Welcome callback does not run (the join epoch stays), and the group
\* state, the epoch and the state of every engine stay as they were; nothing
\* is sent.
C22_WelcomeIgnoredInGroup ==
    [][\A p \in Procs :
          (JustReceived(p, "welcome") /\ mem[p].hasState)
          => /\ mem'[p] = mem[p]
             /\ \A l \in DOMAIN net : Len(net'[l]) <= Len(net[l])]_vars

C22_Witness ==
    \E p \in Procs :
        /\ ~mem[p].crashed
        /\ hist.last.kind = "receive" /\ hist.last.p = p /\ hist.last.msg.type = "welcome"
        /\ p \in hist.last.msg.added
        /\ mem[p].hasState
        /\ mem[p].epoch > hist.last.msg.epoch
        /\ mem[p].deliveredCommits # <<>>

\* The step just taken was member p reading a message of the given kind
\* (WITNESS or READY) of CAC instance i.
JustReadCAC(p, i, kind) ==
    /\ JustReceived(p, "ccm")
    /\ hist'.last.msg.content.body.kind = "cac"
    /\ hist'.last.msg.content.body.instance = i
    /\ hist'.last.msg.content.body.content.witnessOrReady = kind

OwnReady(s, i) == {sig \in s.cac[i].validSignatures : sig.sender = s.id /\ sig.body.witnessOrReady = READY_CODE}

\* ceil((n + t) / 2) + 1
WitnessQuorum(c) == (c.n + c.t + 1) \div 2 + 1

\* C23: while it handles a WITNESS message, a member signs READY for a
\* message only if that message has WITNESS signatures of at least
\* ceil((n+t)/2)+1 members and the member had not signed READY for it.
C23_ReadyNeedsWitnessQuorum ==
    [][\A p \in Procs : \A i \in {1, 2} :
          (JustReadCAC(p, i, WITNESS_CODE) /\ mem'[p].cacEra[i] = mem[p].cacEra[i])
          => \A sig \in OwnReady(mem'[p], i) \ OwnReady(mem[p], i) :
                 /\ witnessCount(mem'[p].cac[i], sig.body.ref) >= WitnessQuorum(mem'[p].cac[i])
                 /\ \A old \in OwnReady(mem[p], i) : old.body.ref # sig.body.ref]_vars

\* C24: a CAC instance calls deliver for a message only if the message has
\* READY signatures of at least qr = n - t members or, on the fast path, if
\* n > 5t, the message has WITNESS signatures of at least n - t members and
\* no other message has a recorded signature.
C24_DeliveredOnQuorum ==
    \A p \in Procs : \A j \in DOMAIN mem[p].cacCalls :
        \/ mem[p].cacCalls[j].readies >= mem[p].cacCalls[j].n - mem[p].cacCalls[j].t
        \/ /\ mem[p].cacCalls[j].n > 5 * mem[p].cacCalls[j].t
           /\ mem[p].cacCalls[j].witnesses >= mem[p].cacCalls[j].n - mem[p].cacCalls[j].t
           /\ mem[p].cacCalls[j].signed \subseteq {mem[p].cacCalls[j].ref}

\* both paths were taken: a delivery on the READY quorum while another message
\* had signatures, and one on the fast path before any READY
C24_Witness ==
    \E p \in Procs :
        /\ \E j \in DOMAIN mem[p].cacCalls :
              /\ mem[p].cacCalls[j].readies >= mem[p].cacCalls[j].n - mem[p].cacCalls[j].t
              /\ mem[p].cacCalls[j].signed # {mem[p].cacCalls[j].ref}
        /\ \E j \in DOMAIN mem[p].cacCalls :
              /\ mem[p].cacCalls[j].readies < mem[p].cacCalls[j].n - mem[p].cacCalls[j].t
              /\ mem[p].cacCalls[j].witnesses >= mem[p].cacCalls[j].n - mem[p].cacCalls[j].t

\* C25: in one epoch a CAC instance calls deliver at most once for a message,
\* on the READY path or on the fast path, whatever arrives afterwards.
C25_DeliveredOncePerEpoch ==
    \A p \in Procs : \A j, k \in DOMAIN mem[p].cacCalls :
        (/\ mem[p].cacCalls[j].inst = mem[p].cacCalls[k].inst
         /\ mem[p].cacCalls[j].era = mem[p].cacCalls[k].era
         /\ mem[p].cacCalls[j].ref = mem[p].cacCalls[k].ref) => j = k

\* a message was delivered, the instance has accepted signatures since, in the
\* same epoch, and the member has just read another message of the instance
C25_Witness ==
    \E p \in Procs : \E j \in DOMAIN mem[p].cacCalls :
        /\ ~mem[p].crashed
        /\ mem[p].cacCalls[j].era = mem[p].cacEra[mem[p].cacCalls[j].inst]
        /\ Cardinality(mem[p].cac[mem[p].cacCalls[j].inst].validSignatures) > mem[p].cacCalls[j].sigs
        /\ hist.last.kind = "receive" /\ hist.last.p = p /\ hist.last.msg.type = "ccm"
        /\ hist.last.msg.content.body.kind = "cac"
        /\ hist.last.msg.content.body.instance = mem[p].cacCalls[j].inst

\* The member whose commit a reference of the first instance names
AuthorOf(ref) == (ref.m \div 10) % 10

\* The deliveries of the first CAC instance in the member's epoch that came
\* with more than one reference in the conflict set
Conflicts(s) ==
    {j \in DOMAIN s.cacDelivered :
        /\ s.cacDelivered[j].inst = 1 /\ s.cacDelivered[j].epoch = s.epoch
        /\ Cardinality(s.cacDelivered[j].conflictSet) > 1}

\* C26: when the first CAC instance delivers with more than one reference in
\* the conflict set, a member that is the author of one of the commits of the
\* conflict set runs Restrained Consensus (it has proposed), and any other
\* member has instead armed the timer that ends in the second CAC instance
\* (armed and pending, or expired with the second instance started) and has
\* not proposed.
C26_AuthorsRunRestrainedConsensus ==
    \A p \in Procs : \A j \in Conflicts(mem[p]) :
        ~mem[p].crashed =>
            IF \E ref \in mem[p].cacDelivered[j].conflictSet : AuthorOf(ref) = p
            THEN mem[p].rc.hasDelivered
            ELSE /\ ~mem[p].rc.hasDelivered
                 /\ mem[p].RCTimeout # NoVal \/ hasStarted(mem[p], 2)

\* What a member's Restrained Consensus instance decided, and when
Decisions(s) == {j \in DOMAIN s.rcLog : s.rcLog[j].what = "decide"}

\* C27: Restrained Consensus decides a subset only if it is the one subset of
\* largest size left in the member's power set after the retracts, the member
\* has signed it itself, and the member holds a signature on it of every
\* member that appears in it.
C27_DecidesTheFullySignedBiggest ==
    \A p \in Procs : \A j \in Decisions(mem[p]) :
        /\ mem[p].rcLog[j].set \in mem[p].rcLog[j].power
        /\ \A other \in mem[p].rcLog[j].power \ {mem[p].rcLog[j].set} :
              Cardinality(other) < Cardinality(mem[p].rcLog[j].set)
        /\ p \in mem[p].rcLog[j].signers
        /\ \A pair \in mem[p].rcLog[j].set : pair[1] \in mem[p].rcLog[j].signers

\* The step just taken was member p, in the epoch of the message, reading a
\* RESTRAINED_CONS message.
JustReadRestrainedCons(p) ==
    /\ JustReceived(p, "ccm")
    /\ hist'.last.msg.content.body.kind = "rc"
    /\ "restrainedCons" \in DOMAIN hist'.last.msg.content.body.content
    /\ mem[p].hasState /\ mem[p].cascState /\ hist'.last.msg.content.epoch = mem[p].epoch

SigSetOf(msg) == msg.content.body.content.restrainedCons.sigSet

\* C28: a RESTRAINED_CONS message whose sigSet entries are not all signed by
\* one sender makes the instance end with bottom (unless it had ended), and
\* none of the signatures of the message is recorded.
C28_MixedSigSetEndsInBottom ==
    [][\A p \in Procs :
          (/\ JustReadRestrainedCons(p)
           /\ \E j, k \in DOMAIN SigSetOf(hist'.last.msg) :
                  SigSetOf(hist'.last.msg)[j].sender # SigSetOf(hist'.last.msg)[k].sender)
          => /\ mem'[p].rc.signed = mem[p].rc.signed
             /\ \/ mem[p].rc.hasFinished
                \/ /\ Len(mem'[p].rcLog) = Len(mem[p].rcLog) + 1
                   /\ mem'[p].rcLog[Len(mem'[p].rcLog)].what = "bottom"]_vars

\* C29: in one epoch a member does not both propose and retract in
\* Restrained Consensus: after it sent RETRACT it signs and broadcasts no
\* subsets, and after it proposed it sends no RETRACT.
C29_ProposeOrRetract ==
    \A p \in Procs : \A j, k \in DOMAIN mem[p].rcLog :
        mem[p].rcLog[j].era = mem[p].rcLog[k].era
            => ~(mem[p].rcLog[j].what = "propose" /\ mem[p].rcLog[k].what = "retract")

\* a member that had sent RETRACT had its own commit delivered by the first CAC
\* instance with a conflict, in the same epoch, and is the author: propose ran
C29_Witness ==
    \E p \in Procs :
        /\ ~mem[p].crashed
        /\ \E k \in DOMAIN mem[p].rcLog :
              mem[p].rcLog[k].what = "retract" /\ mem[p].rcLog[k].era = mem[p].cacEra[1]
        /\ mem[p].rc.retract
        /\ \E j \in Conflicts(mem[p]) : AuthorOf(mem[p].cacDelivered[j].message) = p

\* The entries of the history of a member's instance for its ends, by decision or bottom
Ends(s) == {j \in DOMAIN s.rcLog : s.rcLog[j].what \in {"decide", "bottom"}}

\* C30: a member that proposed to Restrained Consensus ends the instance once,
\* by a decision or with bottom, at the latest when the timer it armed on
\* proposing expires, unless the epoch changes before: the instance invokes
\* at most one of its two callbacks in an epoch; as long as a proposer has
\* not ended, its timer is pending; and a Restrained Consensus message read
\* after the end changes nothing in the instance and makes it send nothing.
C30_ProposerEndsOnce ==
    [][\A p \in Procs :
          ~mem'[p].crashed =>
              /\ \A j, k \in Ends(mem'[p]) : mem'[p].rcLog[j].era = mem'[p].rcLog[k].era => j = k
              /\ (mem'[p].rc.hasDelivered /\ ~mem'[p].rc.hasFinished)
                    => /\ mem'[p].rc.timeout # NoVal
                       /\ \E tm \in mem'[p].timers : tm.id = mem'[p].rc.timeout.id /\ tm.cb = "rcBottom"
              /\ (/\ JustReceived(p, "ccm") /\ hist'.last.msg.content.body.kind = "rc"
                  /\ mem[p].rc.hasFinished)
                    => /\ mem'[p].rc = mem[p].rc /\ mem'[p].rcLog = mem[p].rcLog
                       /\ mem'[p].timers = mem[p].timers /\ mem'[p].cac = mem[p].cac
                       /\ \A l \in DOMAIN net : Len(net'[l]) <= Len(net[l])]_vars

\* a member proposed and decided, and then read a message of member 3's making
\* of which it kept nothing
C30_Witness ==
    \E p \in Procs :
        /\ ~mem[p].crashed
        /\ \E j \in DOMAIN mem[p].rcLog :
              mem[p].rcLog[j].what = "propose" /\ mem[p].rcLog[j].era = mem[p].cacEra[1]
        /\ \E j \in DOMAIN mem[p].rcLog :
              mem[p].rcLog[j].what = "decide" /\ mem[p].rcLog[j].era = mem[p].cacEra[1]
        /\ mem[p].rc.hasFinished /\ mem[p].rc.timeout = NoVal
        /\ hist.last.kind = "receive" /\ hist.last.p = p /\ hist.last.msg \in Forged
        /\ \A elt \in DOMAIN mem[p].rc.signed : 3 \notin DOMAIN mem[p].rc.signed[elt]

\* C31: a member of Full Consensus broadcasts its COMMIT for a reference only
\* when it has taken in PREPARE signatures on that reference, for its current
\* view and epoch, of at least 2f + 1 distinct members, and invokes the delivery
\* callback for a reference only when it has taken in COMMIT signatures on it,
\* for its current view and epoch, of at least 2f + 1 distinct members, where
\* f = floor((n - 1) / 3) and n is the number of members
FCEntries(p, what) == {k \in DOMAIN mem[p].fcLog : mem[p].fcLog[k].what = what}
QuorumOf(e) == 2 * ((Cardinality(e.members) - 1) \div 3) + 1
OnQuorum(e) == e.signers \subseteq e.members /\ Cardinality(e.signers) >= QuorumOf(e)

C31_CommitsAndDeliversOnQuorum ==
    \A p \in Procs : \A k \in FCEntries(p, "commit") \cup FCEntries(p, "deliver") : OnQuorum(mem[p].fcLog[k])

\* member 1 of the group of four has sent its COMMIT and has delivered the
\* commit Full Consensus decided
C31_Witness ==
    /\ Cardinality(mem[Me].fcLog[1].members) = 4
    /\ FCEntries(Me, "commit") # {}
    /\ FCEntries(Me, "deliver") # {}
    /\ mem[Me].deliveredCommits # <<>>

\* C32: within an epoch the view of Full Consensus starts at 0 and changes
\* only from v to v + 1, once VIEW_CHANGE signatures for v + 1 of at least
\* 2f + 1 distinct members were taken in; and a member broadcasts a PREPARE in
\* view v only for a PRE_PREPARE signed for view v by the leader of view v,
\* sortedMembers[(v + epoch) mod n]
LeaderOf(e) == Ascending(e.members)[((e.view + e.epoch) % Cardinality(e.members)) + 1]
ViewAfter(e) == IF e.what = "epoch" THEN 0 ELSE IF e.what = "view" THEN e.to ELSE e.view

ViewsInOrder(log) ==
    /\ log # <<>> => log[1].what = "epoch"
    /\ \A k \in DOMAIN log :
          /\ (k > 1 /\ log[k].what # "epoch") => log[k].view = ViewAfter(log[k - 1]) /\ log[k].epoch = log[k - 1].epoch
          /\ log[k].what = "view" => log[k].to = log[k].view + 1 /\ OnQuorum(log[k])
          /\ log[k].what = "prepare" => log[k].to = log[k].view /\ log[k].signers = {LeaderOf(log[k])}

C32_ViewsAndLeaders ==
    \A p \in Procs :
        /\ ViewsInOrder(mem[p].fcLog)
        /\ (~mem[p].crashed /\ mem[p].fcLog # <<>>) =>
               mem[p].fc.currentView = ViewAfter(mem[p].fcLog[Len(mem[p].fcLog)])

\* member 1 of the group of four has moved to view 1 and has sent its PREPARE
\* there, for the PRE_PREPARE of member 3
C32_Witness ==
    /\ FCEntries(Me, "view") # {}
    /\ \E k \in FCEntries(Me, "prepare") :
          /\ mem[Me].fcLog[k].view = 1
          /\ mem[Me].fcLog[k].signers = {3}
          /\ Cardinality(mem[Me].fcLog[k].members) = 4

\* Nothing is left to happen: every message sent to a running process has
\* been read and no running process has a timeout registered.
Halted ==
    /\ \A l \in DOMAIN net : net[l] = <<>> \/ mem[l[2]].crashed
    /\ \A p \in Procs : mem[p].crashed \/ mem[p].timers = {}

\* the second CAC instance of p delivered with a conflict in epoch e
ConflictIn(p, e) ==
    \E i \in DOMAIN mem[p].cacDelivered :
        /\ mem[p].cacDelivered[i].inst = 2
        /\ mem[p].cacDelivered[i].epoch = e
        /\ Cardinality(mem[p].cacDelivered[i].conflictSet) > 1

DeliveredIn(p, e) == \E j \in DOMAIN mem[p].deliveredCommits : mem[p].deliveredCommits[j].epoch = e

\* C33: with all members running the program and every message sent also
\* received, once the second CAC instance has delivered with a conflict and
\* the members have proposed to Full Consensus, every member delivers a value
\* from Full Consensus: when nothing is left to happen, or nothing is left to
\* happen at a member because it stopped running, a member whose second CAC
\* instance delivered with a conflict in an epoch has delivered a commit in
\* that epoch.
C33_EveryProposerDecides ==
    \A p \in Procs : \A e \in FirstEpoch..MaxEpoch :
        (ConflictIn(p, e) /\ (Halted \/ mem[p].crashed)) => DeliveredIn(p, e)

\* p has just read a gossip message that carries a proposal it delivers: one
\* of its epoch that it had not received
JustReadProposal(p) ==
    /\ JustReceived(p, "gossip")
    /\ "bcastMessage" \in DOMAIN hist'.last.msg.content
    /\ mem[p].hasState /\ ~mem[p].crashed
    /\ hist'.last.msg.content.bcastMessage \notin mem[p].received
    /\ isValidProposal(mem[p], hist'.last.msg.content.bcastMessage)

HandedSince(p, n) == {mem'[p].validated[k].commit : k \in (n + 1)..Len(mem'[p].validated)}

\* every commit handed to validateCommit had all its proposals received in the epoch
HandedComplete ==
    \A p \in Procs : \A k \in DOMAIN mem[p].validated :
        /\ mem[p].validated[k].commit.props \subseteq mem[p].validated[k].known
        /\ mem[p].validated[k].commit.epoch = mem[p].validated[k].epoch

\* an incomplete commit is kept with the proposals it still misses, and has not been handed
KeptIncomplete ==
    \A p \in Procs : \A c \in DOMAIN mem[p].incompleteCommits :
        /\ mem[p].incompleteCommits[c] # {}
        /\ mem[p].incompleteCommits[c] = c.props \ mem[p].receivedProposals
        /\ \A k \in DOMAIN mem[p].validated :
              mem[p].validated[k].epoch = mem[p].epoch => mem[p].validated[k].commit # c

\* the delivery of the last proposal a kept commit misses hands the commit
HandedOnLast ==
    \A p \in Procs : \A c \in DOMAIN mem[p].incompleteCommits :
        (JustReadProposal(p) /\ mem[p].incompleteCommits[c] = {hist'.last.msg.content.bcastMessage.id})
            => c \in HandedSince(p, Len(mem[p].validated))

\* C34: a commit learned through the first CAC instance is handed to
\* validateCommit only when every proposal it references has been delivered
\* locally in the current epoch; until then it is kept in incompleteCommits;
\* and it is handed to validateCommit when the last proposal it misses is
\* delivered.
C34_CommitsWaitForTheirProposals ==
    /\ [](HandedComplete /\ KeptIncomplete)
    /\ [][HandedOnLast]_vars

WelcomesOn(n, l) == Cardinality({k \in DOMAIN n[l] : n[l][k].type = "welcome"})
FirstNewCommit(p) == mem'[p].deliveredCommits[Len(mem[p].deliveredCommits) + 1]

C36_FailedLookupAbortsTheOperationOnly ==
    [][\A p \in Clients :
          (hist'.last.kind = "add" /\ hist'.last.p = p /\ hist' # hist /\ ~Served(mem[PKI], hist'.last.msg.ids))
              => /\ ~mem'[p].crashed
                 /\ mem'[p].epoch = mem[p].epoch
                 /\ mem'[p].members = mem[p].members]_vars

OwnSigs(s, i, kind) == {sig \in s.cac[i].validSignatures : sig.sender = s.id /\ sig.body.witnessOrReady = kind}

\* C37: once a member has broadcast a READY signature in a CAC instance during
\* an epoch, it emits no further WITNESS signature in that instance and epoch:
\* each of its WITNESS signatures of the epoch has a lower sequence number
\* than each of its READY signatures.
C37_NoWitnessAfterReady ==
    \A p \in Procs : \A i \in {1, 2} :
        \A r \in OwnSigs(mem[p], i, READY_CODE) : \A w \in OwnSigs(mem[p], i, WITNESS_CODE) :
            w.body.sequence < r.body.sequence

\* C38: whenever a CAC instance calls its deliver callback for a ref, the payload
\* it passes is the message of that ref, received or broadcast locally in the
\* current epoch, never an empty placeholder: the j-th call of m_deliver, made
\* for cacCalls[j].ref, hands over the message cacDelivered[j].message with
\* that very ref.
C38_DeliversReceivedPayloads ==
    \A p \in Procs : \A j \in DOMAIN mem[p].cacCalls \cap DOMAIN mem[p].cacDelivered :
        /\ mem[p].cacDelivered[j].message = mem[p].cacCalls[j].ref
        /\ mem[p].cacDelivered[j].message # Ref(DefaultMessage(mem[p].cacCalls[j].inst))

\* C39: whenever the cascade applies the Choice function after a CAC2 or Full
\* Consensus delivery, the candidate list is not empty: every CAC2 content a
\* member broadcasts names at least one commit ref, the content delivered names
\* at least one, and the delivering member holds the commit of at least one of
\* the refs named in the message store of CAC1.
CAC2On(q) ==
    {q[k].content.body.content.optBroadcastMessage :
        k \in {j \in DOMAIN q : /\ q[j].type = "ccm"
                                /\ q[j].content.body.kind = "cac2"
                                /\ q[j].content.body.content.optBroadcastMessage # NoVal}}

CAC2Sent == UNION {CAC2On(net[l]) : l \in DOMAIN net}

C39_ChoiceHasCandidates ==
    /\ \A content \in CAC2Sent : content.conflictingMessages # <<>>
    /\ \A p \in Procs : \A j \in DOMAIN mem[p].choiceLog :
          /\ mem[p].choiceLog[j].named > 0
          /\ mem[p].choiceLog[j].choices > 0

\* C40: validity.  With all members honest, every commit a member delivers in
\* epoch e is a commit that some member of the group passed to proposeCommit in
\* epoch e.
PassedBy(s, e) == {s.passed[k].commit : k \in {j \in DOMAIN s.passed : s.passed[j].epoch = e}}
PassedIn(e) == UNION {PassedBy(mem[q], e) : q \in Procs}

C40_DeliveredWasProposed ==
    \A p \in Procs : \A j \in DOMAIN mem[p].deliveredCommits :
        mem[p].deliveredCommits[j].commit \in PassedIn(mem[p].deliveredCommits[j].epoch)

\* a member has delivered, after a conflict, a commit that another member proposed
C40_Witness ==
    \E p \in Procs : \E j \in DOMAIN mem[p].deliveredCommits :
        /\ mem[p].deliveredCommits[j].commit.sender # p
        /\ mem[p].choiceLog # <<>>
        /\ Cardinality(PassedIn(mem[p].deliveredCommits[j].epoch)) > 1

\* C12: with all members running the program, connected and in the same
\* epoch, a message of that epoch that a member passed to dispatchMessage
\* reaches the deliver callback of every other member: once everything sent
\* has been read, no member is left without it.
C12_GossipReachesEveryMember ==
    AllReadInOneEpoch =>
        \A p, q \in Procs : \A i \in DOMAIN mem[p].gossipDelivered :
            mem[p].gossipDelivered[i].msg.epoch = mem[p].epoch => GossipDelivered(q, mem[p].gossipDelivered[i].msg)

(***************************************************************************)
(* Properties checked under SpecFC                                         *)
(***************************************************************************)
ConsensusTimers == {"rcBottom", "rcTimeout", "fcPropose", "fcForward"}

\* C14: a timeout that is registered can expire, so when the epoch of a member
\* has advanced no timeout of Restrained Consensus, of Full Consensus or of
\* the cascade that was registered in an earlier epoch is still registered.
C14_NoTimerOutlivesItsEpoch ==
    \A p \in Procs : \A tm \in mem[p].timers :
        (~mem[p].crashed /\ tm.cb \in ConsensusTimers) => tm.epoch = mem[p].epoch

(***************************************************************************)
(* Properties checked under SpecNet, SpecTrio and SpecLag                  *)
(***************************************************************************)
\* Nothing is left to happen unless a user types: every message sent has been
\* read, no timeout is registered, and every process is running.
Quiescent ==
    /\ \A l \in DOMAIN net : net[l] = <<>>
    /\ \A p \in Procs : mem[p].timers = {} /\ ~mem[p].crashed

\* C6: with all members running the program and every message sent also
\* received, a commit proposed in epoch e is followed by every member
\* delivering a commit for e and moving to e+1: once nothing is left to
\* happen, no member still holds a commit it proposed in an epoch that some
\* member has not left.
C6_ProposedCommitsAreDelivered ==
    Quiescent =>
        \A p, q \in Procs : mem[p].proposedCommit # NoVal => mem[q].epoch > mem[p].proposedCommit.epoch

\* C5: every conflict set a member passes to its deliver callback in a CAC
\* instance and epoch contains every message a member delivered in that
\* instance and epoch.
C5_DeliveredIsInEveryConflictSet ==
    \A p, q \in Procs : \A i \in DOMAIN mem[p].cacDelivered, j \in DOMAIN mem[q].cacDelivered :
        (mem[p].cacDelivered[i].inst = mem[q].cacDelivered[j].inst
         /\ mem[p].cacDelivered[i].epoch = mem[q].cacDelivered[j].epoch)
            => mem[p].cacDelivered[i].message \in mem[q].cacDelivered[j].conflictSet

\* C1: two members that deliver a commit to the client in the same epoch
\* deliver the same commit.
C1_SameCommitInEachEpoch ==
    \A p, q \in Procs : \A i \in DOMAIN mem[p].deliveredCommits, j \in DOMAIN mem[q].deliveredCommits :
        mem[p].deliveredCommits[i].epoch = mem[q].deliveredCommits[j].epoch
            => mem[p].deliveredCommits[i].commit = mem[q].deliveredCommits[j].commit

====
